---------------------------- MODULE Spec2Model ----------------------------
(***************************************************************************)
(* Model of the invoice PDF generators of E2W-Finance-Management:          *)
(*   src/src/lib/pdf/modern-invoice-generator.ts  generateModernInvoicePDF *)
(*   src/src/lib/pdf/invoice-generator.ts         generateInvoicePDF,      *)
(*                                                generateInvoiceForTransaction *)
(*                                                                         *)
(* Units.  Vertical positions and heights are in hundredths of a PDF point *)
(* (841.89 pt = 84189), so every position the code computes is an exact    *)
(* integer.  Text is a sequence of tokens; the token " " is one space and  *)
(* every other token is a run of non-space characters with a fixed glyph   *)
(* width.  Font metrics are additive over tokens (kerning is not modelled).*)
(* Money is in thousandths of a currency unit, so that rounding to two     *)
(* decimals is a real conversion.                                          *)
(***************************************************************************)
EXTENDS Integers, Sequences, FiniteSets, TLC

VARIABLES
    call,                \* [Inv -> the caller's request]
    pc,                  \* [Inv -> control point of the invocation]
    data,                \* [Inv -> the ModernInvoiceData / InvoiceData being rendered]
    loc,                 \* [Inv -> locals extracted from data (lines 151-162)]
    doc,                 \* [Inv -> pdfDoc: sequence of pages, each with its draw commands]
    currentY,            \* [Inv -> the layout cursor's vertical position]
    calculatedSubtotal,  \* [Inv -> running sum of the item amounts]
    idx,                 \* [Inv -> loop index i over data.lineItems]
    det,                 \* [Inv -> position of the loop over item.details]
    result,              \* [Inv -> "pending" | "bytes" | "error"]
    logoReadable,        \* environment: can the logo file be read and decoded
    clock,               \* environment: the current day, read by new Date()
    transactions,        \* prisma.transaction: the rows in insertion order, the id is the position
    recurringTemplates,  \* prisma.recurringTemplate: the rows, the id is the position
    exchangeRates,       \* prisma.exchangeRate: [currency -> the latest rate to BDT, if any]
    response,            \* the endpoint called last, its status, the rows its body is made from
    partialKeepsRefinements,  \* environment: does the schema library keep refine() under partial()
    cronSecret,          \* environment: process.env.CRON_SECRET, "" when not configured
    inflight             \* the local variables of the requests that are being handled

pdfVars == <<call, pc, data, loc, doc, currentY, calculatedSubtotal, idx, det, result,
             logoReadable, clock>>

apiVars == <<transactions, recurringTemplates, exchangeRates, response,
             partialKeepsRefinements, cronSecret, inflight>>

vars == <<pdfVars, apiVars>>

-----------------------------------------------------------------------------
(* Bounds of the model *)

MaxItems == 3        \* line items per invoice
MaxDetails == 7      \* detail bullets per item in the layout inputs
MaxWords == 4        \* words per bullet in the wrapping inputs
MaxClock == 2        \* the latest day the clock can show
MaxTx == 1           \* rows the transaction table can hold
MaxTemplates == 1    \* recurring templates in the ledger
MaxPayments == 2     \* payments recorded against one transaction
DaysInMonth == 2     \* days a month of the calendar has
MaxRunTemplates == 2 \* templates in the ledger of two overlapping runs
MaxRequests == 2     \* invoice requests handled at the same time

Inv == 1..2          \* invocations: the call and a repeated call with the same input

-----------------------------------------------------------------------------
(* Text and font metrics *)

SP == " "

\* Glyph widths in 1/1000 of the font size (Helvetica's space is 278).
GlyphUnits(tok) ==
    CASE tok = SP   -> 278
      [] tok = "ab" -> 16000
      [] tok = "cd" -> 30000
      [] tok = "W"  -> 48000
      [] OTHER      -> 5000

RECURSIVE TextUnits(_)
TextUnits(text) ==
    IF text = <<>> THEN 0 ELSE GlyphUnits(Head(text)) + TextUnits(Tail(text))

\* font.widthOfTextAtSize(text, size): size10 is the size in tenths of a
\* point; the result is in 1/10000 pt.
widthOfTextAtSize(text, size10) == TextUnits(text) * size10

\* detail.split(' '): the words between single spaces; two adjacent spaces,
\* a leading or a trailing space give an empty word.
RECURSIVE SplitFrom(_, _)
SplitFrom(text, word) ==
    IF text = <<>> THEN <<word>>
    ELSE IF Head(text) = SP THEN <<word>> \o SplitFrom(Tail(text), <<>>)
    ELSE SplitFrom(Tail(text), Append(word, Head(text)))

Split(text) == SplitFrom(text, <<>>)

\* The string whose split is ws (used to build inputs).
RECURSIVE Join(_)
Join(ws) ==
    IF ws = <<>> THEN <<>>
    ELSE IF Len(ws) = 1 THEN ws[1]
    ELSE ws[1] \o <<SP>> \o Join(Tail(ws))

-----------------------------------------------------------------------------
(* Pages and draw commands *)

\* One draw call: tag names the call site, op the pdf-lib primitive, y the
\* vertical coordinate, text the string drawn, num a number drawn with it.
Cmd(tag, op, y, text, num) ==
    [tag |-> tag, op |-> op, y |-> y, text |-> text, num |-> num]

PageHeight == 84189
FOOTER_HEIGHT == 8000
MIN_CONTENT_Y == FOOTER_HEIGHT + 2000
TopOfNewPage == PageHeight - 8000

\* addFooter(page, ...): four draw calls.
addFooter(invoiceNumber) ==
    << Cmd("footer.band", "rect", 0, <<>>, 6000),
       Cmd("footer.brand", "text", 3500, <<"E2W", SP, "Global">>, 0),
       Cmd("footer.site", "text", 2000, <<"e2w.global">>, 0),
       Cmd("footer.invoice", "text", 2800, <<"Invoice", SP, invoiceNumber>>, 0) >>

\* Draw calls that keep going to the first page of the document.
DrawOnFirstPage(d, cmds) ==
    [d EXCEPT ![1].cmds = @ \o cmds]

\* page.draw...(...) on the current page, which is always the last one added.
Draw(d, cmds) ==
    [d EXCEPT ![Len(d)].cmds = @ \o cmds]

\* pdfDoc.addPage(): by is the place in the code that adds the page.
AddPage(d, by) == Append(d, [by |-> by, cmds |-> <<>>])

\* addNewPage(pdfDoc, ...): a new page that already carries a footer.
addNewPage(d, by, invoiceNumber) ==
    Draw(AddPage(d, by), addFooter(invoiceNumber))

\* The pagination step used at every pagination point: footer on the
\* current page, then addNewPage.
Paginate(d, by, invoiceNumber) ==
    addNewPage(Draw(d, addFooter(invoiceNumber)), by, invoiceNumber)

\* A space check that never asks for a new page.
NeverNewPage(y, needed) == FALSE

\* A space check against the top of the footer band instead of
\* MIN_CONTENT_Y.
NeedsNewPageAtBand(y, needed) == y - needed < 6000

\* The space checks of lines 413, 491, 517 and 569:
\* currentY - needed < MIN_CONTENT_Y.
NeedsNewPage(y, needed) == y - needed < MIN_CONTENT_Y

-----------------------------------------------------------------------------
(* Numbers *)

\* Number.prototype.toFixed(2) and toLocaleString('en-US', two fraction
\* digits): a value in thousandths rounded to hundredths, half away from zero.
toFixed2(m) ==
    IF m >= 0 THEN (m + 5) \div 10 ELSE 0 - ((5 - m) \div 10)

\* An accumulation that keeps only the last amount.
AssignAmount(sum, amount) == amount

\* calculatedSubtotal += item.amount
AddAmount(sum, amount) == sum + amount

\* getCurrencySymbol of the modern generator: a lookup with the raw code as
\* the fallback.
getCurrencySymbol(currency) ==
    CASE currency = "BDT" -> "Tk"
      [] currency = "USD" -> "$"
      [] currency = "GBP" -> "L"
      [] currency = "EUR" -> "E"
      [] OTHER -> currency

\* getCurrencySymbol of the legacy generator (BDT maps to itself).
legacyCurrencySymbol(currency) ==
    CASE currency = "USD" -> "$"
      [] currency = "GBP" -> "L"
      [] currency = "EUR" -> "E"
      [] OTHER -> currency

Min(a, b) == IF a < b THEN a ELSE b

-----------------------------------------------------------------------------
(* Word wrapping of one detail bullet (modern 497-538, legacy 312-347) *)

\* P: the parameters of a wrapping loop.
ModernWrap(invoiceNumber) ==
    [maxWidth |-> 380, size10 |-> 85, step |-> 1300, paginate |-> TRUE,
     invoiceNumber |-> invoiceNumber]

LegacyWrap ==
    [maxWidth |-> 350, size10 |-> 90, step |-> 1080, paginate |-> FALSE,
     invoiceNumber |-> ""]

\* The bullet character and the space after it, then the line.
BulletCmd(y, line) == Cmd("bullet", "text", y, <<"*", SP>> \o line, 0)

\* An overflow test that measures the line without the next word.
OverflowsMeasuringLine(testLine, line, P) ==
    /\ widthOfTextAtSize(line, P.size10) > P.maxWidth * 10000
    /\ line # <<>>

\* An overflow test that also flushes an empty line.
OverflowsAlways(testLine, line, P) ==
    widthOfTextAtSize(testLine, P.size10) > P.maxWidth * 10000

\* if (testWidth > maxWidth && line)
Overflows(testLine, line, P) ==
    /\ widthOfTextAtSize(testLine, P.size10) > P.maxWidth * 10000
    /\ line # <<>>

\* A wrapping loop that starts the new page with an empty line.
WrapWordLosingWord(c, word, P) ==
    LET testLine == c.line \o (IF c.line # <<>> THEN <<SP>> ELSE <<>>) \o word
    IN  IF Overflows(testLine, c.line, P)
        THEN LET drawn == Draw(c.doc, <<BulletCmd(c.y, c.line)>>)
                 y1 == c.y - P.step
             IN  IF P.paginate /\ NeedsNewPage(y1, 0)
                 THEN [doc |-> Paginate(drawn, "wrap", P.invoiceNumber),
                       y |-> TopOfNewPage, line |-> <<>>]
                 ELSE [doc |-> drawn, y |-> y1, line |-> word]
        ELSE [c EXCEPT !.line = testLine]

\* One iteration of `for (const word of words)`; c = [doc, y, line].
WrapWord(c, word, P) ==
    LET testLine == c.line \o (IF c.line # <<>> THEN <<SP>> ELSE <<>>) \o word
    IN  IF Overflows(testLine, c.line, P)
        THEN LET drawn == Draw(c.doc, <<BulletCmd(c.y, c.line)>>)
                 y1 == c.y - P.step
             IN  IF P.paginate /\ NeedsNewPage(y1, 0)
                 THEN [doc |-> Paginate(drawn, "wrap", P.invoiceNumber),
                       y |-> TopOfNewPage, line |-> word]
                 ELSE [doc |-> drawn, y |-> y1, line |-> word]
        ELSE [c EXCEPT !.line = testLine]

RECURSIVE WrapWords(_, _, _)
WrapWords(c, words, P) ==
    IF words = <<>> THEN c
    ELSE WrapWords(WrapWord(c, Head(words), P), Tail(words), P)

\* One iteration of `for (const detail of item.details)`; c = [doc, y].
PlaceDetail(c, detail, P) ==
    LET c0 == IF P.paginate /\ NeedsNewPage(c.y, 1400)
              THEN [doc |-> Paginate(c.doc, "detail", P.invoiceNumber),
                    y |-> TopOfNewPage]
              ELSE c
        w == WrapWords([doc |-> c0.doc, y |-> c0.y, line |-> <<>>],
                       Split(detail), P)
    IN  IF w.line # <<>>
        THEN [doc |-> Draw(w.doc, <<BulletCmd(w.y, w.line)>>), y |-> w.y - P.step]
        ELSE [doc |-> w.doc, y |-> w.y]

RECURSIVE PlaceDetails(_, _, _)
PlaceDetails(c, details, P) ==
    IF details = <<>> THEN c
    ELSE PlaceDetails(PlaceDetail(c, Head(details), P), Tail(details), P)

-----------------------------------------------------------------------------
(* The modern generator's line-item loop (403-555) *)

\* The repeating column header (372-397 and 422-446).
ColumnHeader(y) ==
    << Cmd("colhdr.band", "rect", y - 2800, <<>>, 2800),
       Cmd("colhdr.description", "text", y - 1800, <<"DESCRIPTION">>, 0),
       Cmd("colhdr.amount", "text", y - 1800, <<"AMOUNT">>, 0) >>

\* estimatedItemHeight (408-411)
estimatedItemHeight(item) ==
    1800 + (IF item.description # <<>> THEN 1600 ELSE 0)
         + Len(item.details) * 1400 + 2500

\* Lines 404-485 for item number i (1-based): the space check, the title,
\* the amount and the description; c = [doc, y].
ItemHead(c, item, i, L) ==
    LET c0 == IF NeedsNewPage(c.y, estimatedItemHeight(item))
              THEN [doc |-> Draw(Paginate(c.doc, "item", L.invoiceNumber),
                                 ColumnHeader(TopOfNewPage)),
                    y |-> TopOfNewPage - 4500]
              ELSE c
        titled == Draw(c0.doc,
                    << Cmd("item.title", "text", c0.y, item.title, i),
                       Cmd("item.amount", "text", c0.y, <<L.currencySymbol>>,
                           toFixed2(item.amount)) >>)
        y1 == c0.y - 2000
    IN  IF item.description # <<>>
        THEN [doc |-> Draw(titled, <<Cmd("item.description", "text", y1,
                                         item.description, 0)>>),
              y |-> y1 - 1600]
        ELSE [doc |-> titled, y |-> y1]

\* Lines 542-554 for item number i of n: the space after the item and the
\* separator line.
ItemTail(c, i, n) ==
    LET y3 == c.y - 1500
    IN  IF i < n
        THEN [doc |-> Draw(c.doc, <<Cmd("item.separator", "line", y3, <<>>, 0)>>),
              y |-> y3 - 1800]
        ELSE [doc |-> c.doc, y |-> y3]

-----------------------------------------------------------------------------
(* The modern generator outside the loop *)

\* An optional value is <<>> (undefined) or <<v>>; an optional string is ""
\* when absent (the code tests strings for truthiness).
Some(o) == o # <<>>
Val(o) == o[1]
Or(a, b) == IF a # "" THEN a ELSE b

\* A date string: a literal the caller supplies (day 0), the en-GB long form
\* of a day, or the absent string.
NoDate == [text |-> "", day |-> 0]
DateLiteral(s) == [text |-> s, day |-> 0]

\* formatDate(date) (69-76) and the toLocaleDateString calls of the legacy
\* generator.
formatDate(day) == [text |-> "formatted", day |-> day]

\* The clock is read (`new Date()`, line 161) only when the input carries
\* neither invoiceDate nor a transaction date.
ReadsClock(d) == d.invoiceDate.text = "" /\ ~Some(d.transaction)

\* Lines 151-162.
Extract(d, now) ==
    LET currency == Or(d.currency,
                       Or(IF Some(d.transaction) THEN Val(d.transaction).currency ELSE "",
                          "GBP"))
    IN  [currencySymbol |-> getCurrencySymbol(currency),
         isPaid |-> d.isPaid,
         client |-> Or(d.metadata.client,
                       Or(IF Some(d.transaction) THEN Val(d.transaction).payee ELSE "",
                          "Client")),
         project |-> d.metadata.project,
         duration |-> d.metadata.duration,
         invoiceNumber |-> Or(d.metadata.invoiceNumber,
                              Or(IF Some(d.transaction)
                                 THEN Val(d.transaction).invoiceNumber ELSE "",
                                 "INV-001")),
         invoiceDate |-> IF d.invoiceDate.text # "" THEN d.invoiceDate
                         ELSE IF Some(d.transaction)
                              THEN formatDate(Val(d.transaction).date)
                              ELSE formatDate(now),
         notes |-> d.metadata.notes]

HeaderTop == PageHeight - 6000

\* Lines 173-196: the logo image, or the company name when the logo cannot
\* be loaded.
LogoCmds(readable) ==
    IF readable
    THEN <<Cmd("header.logo", "image", HeaderTop - 1500, <<>>, 0)>>
    ELSE <<Cmd("header.logoText", "text", HeaderTop, <<"E2W">>, 0)>>

\* Lines 198-397: title, accent line, the two info columns and the column
\* header of the first page.  The result is [cmds, y]: y is currentY at the
\* first line item.
Header(L) ==
    LET y1 == HeaderTop - 6000
        y2 == y1 - 5000
        leftClient == y2 - 2200
        leftProject == IF L.project # "" THEN leftClient - 2000 ELSE leftClient
        leftY == IF L.duration # "" THEN leftProject - 1800 ELSE leftProject
        rDate == y2 - 3500
        rFrom == rDate - 4000
        rName == rFrom - 2000
        rStreet == rName - 1600
        rTown == rStreet - 1400
        rCountry == rTown - 1400
        rightY == rCountry - 1800
        y3 == Min(leftY, rightY) - 5000
    IN  [cmds |->
            << Cmd("header.title", "text", HeaderTop + 500, <<"INVOICE">>, 0),
               Cmd("header.accent", "line", y1, <<>>, 0),
               Cmd("info.billTo", "text", y2, <<"BILL", SP, "TO">>, 0),
               Cmd("info.client", "text", leftClient, <<L.client>>, 0) >>
            \o (IF L.project # ""
                THEN <<Cmd("info.project", "text", leftProject,
                           <<"Project:", SP, L.project>>, 0)>>
                ELSE <<>>)
            \o (IF L.duration # ""
                THEN <<Cmd("info.duration", "text", leftY,
                           <<"Duration:", SP, L.duration>>, 0)>>
                ELSE <<>>)
            \o << Cmd("info.numberBox", "rect", y2 - 500, <<>>, 2400),
                  Cmd("info.numberLabel", "text", y2 + 200, <<"Invoice", SP, "#">>, 0),
                  Cmd("info.number", "text", y2 + 200, <<L.invoiceNumber>>, 0),
                  Cmd("info.dateLabel", "text", rDate, <<"Issue", SP, "Date">>, 0),
                  Cmd("info.date", "text", rDate, <<L.invoiceDate.text>>,
                      L.invoiceDate.day),
                  Cmd("info.from", "text", rFrom, <<"FROM">>, 0),
                  Cmd("info.fromName", "text", rName, <<"E2W">>, 0),
                  Cmd("info.fromStreet", "text", rStreet,
                      <<"316", SP, "Wensley", SP, "Road">>, 0),
                  Cmd("info.fromTown", "text", rTown,
                      <<"Reading,", SP, "RG1", SP, "6DR">>, 0),
                  Cmd("info.fromCountry", "text", rCountry,
                      <<"United", SP, "Kingdom">>, 0),
                  Cmd("info.fromSite", "text", rightY, <<"e2w.global">>, 0) >>
            \o ColumnHeader(y3),
         y |-> y3 - 4500]

\* const totals = data.totals || { total: calculatedSubtotal }   (563)
NoBreakdown(total) ==
    [subtotal |-> <<>>, tax |-> <<>>, taxRate |-> <<>>, discount |-> <<>>,
     total |-> total]

TotalsOf(d, subtotal) ==
    IF Some(d.totals) THEN Val(d.totals) ELSE NoBreakdown(subtotal)

\* hasBreakdown (564); totalsBoxHeight (566) follows.
hasBreakdown(t) == Some(t.subtotal) \/ Some(t.tax) \/ Some(t.discount)

\* A box height that ignores the breakdown.
AlwaysCompactBox(t) == 6000

totalsBoxHeight(t) == IF hasBreakdown(t) THEN 12000 ELSE 6000

\* Lines 587-665: the breakdown lines; the result is [cmds, y] with y the
\* position of the total line.
Breakdown(t, y, L) ==
    LET showSub == Some(t.subtotal) /\ Val(t.subtotal) # 0
        yd == IF showSub THEN y - 2000 ELSE y
        showDisc == Some(t.discount) /\ Val(t.discount) > 0
        yt == IF showDisc THEN yd - 2000 ELSE yd
        showTax == Some(t.tax) /\ Val(t.tax) > 0
        ys == IF showTax THEN yt - 2000 ELSE yt
    IN  [cmds |->
            (IF showSub
             THEN << Cmd("totals.subtotalLabel", "text", y, <<"Subtotal">>, 0),
                     Cmd("totals.subtotal", "text", y, <<L.currencySymbol>>,
                         toFixed2(Val(t.subtotal))) >>
             ELSE <<>>)
            \o (IF showDisc
                THEN << Cmd("totals.discountLabel", "text", yd, <<"Discount">>, 0),
                        Cmd("totals.discount", "text", yd, <<"-", L.currencySymbol>>,
                            toFixed2(Val(t.discount))) >>
                ELSE <<>>)
            \o (IF showTax
                THEN << Cmd("totals.taxLabel", "text", yt,
                            IF Some(t.taxRate) /\ Val(t.taxRate) # 0
                            THEN <<"Tax", SP, "(%)">> ELSE <<"Tax">>,
                            IF Some(t.taxRate) THEN Val(t.taxRate) ELSE 0),
                        Cmd("totals.tax", "text", yt, <<L.currencySymbol>>,
                            toFixed2(Val(t.tax))) >>
                ELSE <<>>)
            \o <<Cmd("totals.separator", "line", ys + 500, <<>>, 0)>>,
         y |-> ys - 1200]

\* Lines 561-684; c = [doc, y]; the result is [doc, y] with y = currentY
\* after the space check.
DrawTotals(c, d, subtotal, L) ==
    LET y0 == c.y - 3500
        t == TotalsOf(d, subtotal)
        h == totalsBoxHeight(t)
        c0 == IF NeedsNewPage(y0, h)
              THEN [doc |-> Paginate(c.doc, "totals", L.invoiceNumber),
                    y |-> TopOfNewPage]
              ELSE [doc |-> c.doc, y |-> y0]
        b == IF hasBreakdown(t) THEN Breakdown(t, c0.y, L)
             ELSE [cmds |-> <<>>, y |-> c0.y]
    IN  [doc |-> Draw(c0.doc,
                   <<Cmd("totals.box", "rect", c0.y - h + 1000, <<>>, h)>>
                   \o b.cmds
                   \o << Cmd("totals.totalLabel", "text", b.y, <<"TOTAL">>, 0),
                         Cmd("totals.total", "text", b.y - 200, <<L.currencySymbol>>,
                             toFixed2(t.total)) >>),
         y |-> c0.y]

\* Lines 690-715: the stamp is drawn only if there is space for it.
PaidStamp(y, L) ==
    LET stampY == y - 10000
    IN  IF L.isPaid /\ stampY > MIN_CONTENT_Y
        THEN << Cmd("paid.frame", "rect", stampY - 1500, <<>>, 3500),
                Cmd("paid.text", "text", stampY - 800, <<"PAID">>, 0) >>
        ELSE <<>>

\* Lines 721-744: the notes if they fit, then the footer of the final page.
NotesAndFooter(y, h, L) ==
    LET footerY == y - h - 4000
    IN  (IF L.notes # "" /\ footerY > MIN_CONTENT_Y + 6000
         THEN << Cmd("notes.label", "text", footerY, <<"NOTES">>, 0),
                 Cmd("notes.text", "text", footerY - 1800, <<L.notes>>, 0) >>
         ELSE <<>>)
        \o addFooter(L.invoiceNumber)

-----------------------------------------------------------------------------
(* The legacy generator (invoice-generator.ts) *)

\* getInvoiceNumber (36-45): the stored number, or one derived from a hash
\* of payee and month.
getInvoiceNumber(t) == Or(t.invoiceNumber, "INV-HASH")

\* Months have 30 days in the model.
MonthOf(day) == (day - 1) \div 30
EndOfMonth(day) == (MonthOf(day) + 1) * 30

\* getInvoiceDate (67-85): the due date, else the end of the month.
getInvoiceDate(t) ==
    IF Some(t.dueDate) THEN formatDate(Val(t.dueDate))
    ELSE formatDate(EndOfMonth(t.date))

\* Lines 106-113: the black header band.
LegacyBand == <<Cmd("header.band", "rect", PageHeight - 14400, <<>>, 14400)>>

\* Lines 115-131: the logo image; when it cannot be loaded nothing is drawn.
LegacyLogoCmds(readable) ==
    IF readable
    THEN <<Cmd("header.logo", "image", PageHeight - 10800, <<>>, 0)>>
    ELSE <<>>

\* Lines 133-274: title, number, date, addresses, table header.
LegacyHeader(d) ==
    LET t == d.transaction
        isExpense == t.type = "EXPENSE"
        yAddress == PageHeight - 21600
        yTable == PageHeight - 36000
        date == getInvoiceDate(t)
        extra == IF d.projectName # "" THEN 1 ELSE 0
        symbol == legacyCurrencySymbol(t.currency)
    IN  << Cmd("header.title", "text", PageHeight - 8640, <<"INVOICE">>, 0),
           Cmd("info.number", "text", PageHeight - 11520,
               <<"Invoice", SP, "No:", SP, getInvoiceNumber(t)>>, 0),
           Cmd("info.date", "text", PageHeight - 12960,
               <<"Date:", SP, date.text>>, date.day) >>
        \o (IF d.projectName # ""
            THEN <<Cmd("info.project", "text", PageHeight - 11520,
                       <<"Project:", SP, d.projectName>>, 0)>>
            ELSE <<>>)
        \o (IF d.duration # ""
            THEN <<Cmd("info.duration", "text", PageHeight - 11520 - extra * 1440,
                       <<"Duration:", SP, d.duration>>, 0)>>
            ELSE <<>>)
        \o << Cmd("info.fromLabel", "text", yAddress,
                  IF isExpense THEN <<"BILL", SP, "FROM">> ELSE <<"FROM">>, 0),
              Cmd("info.from", "text", yAddress - 1800,
                  <<IF isExpense THEN t.payee ELSE "E2W">>, 0),
              Cmd("info.toLabel", "text", yAddress,
                  IF isExpense THEN <<"BILL", SP, "TO">> ELSE <<"TO">>, 0),
              Cmd("info.to", "text", yAddress - 1800,
                  <<IF isExpense THEN "E2W" ELSE t.payee>>, 0),
              Cmd("info.street", "text", yAddress - 3240,
                  <<"316,", SP, "Wensley", SP, "Road">>, 0),
              Cmd("info.town", "text", yAddress - 4320,
                  <<"Reading,", SP, "United", SP, "Kingdom,", SP, "RG16DR">>, 0),
              Cmd("info.site", "text", yAddress - 5400, <<"e2w.global">>, 0),
              Cmd("colhdr.band", "rect", yTable, <<>>, 2880),
              Cmd("colhdr.description", "text", yTable + 864, <<"DESCRIPTION">>, 0),
              Cmd("colhdr.amount", "text", yTable + 864,
                  IF t.currency = "BDT" THEN <<"AMOUNT", SP, "(BDT)">>
                  ELSE <<"AMOUNT", SP, "(", symbol, ")">>, 0) >>

\* One iteration of the detailed loop (281-352); c = [doc, y].
LegacyItem(c, item) ==
    LET y0 == c.y - 1440
        titled == Draw(c.doc,
                    << Cmd("item.title", "text", y0, item.title, 0),
                       Cmd("item.amount", "text", y0, <<>>, toFixed2(item.amount)) >>)
        c1 == PlaceDetails([doc |-> titled, y |-> y0 - 1152], item.details, LegacyWrap)
    IN  [doc |-> c1.doc, y |-> c1.y - 720]

RECURSIVE LegacyItems(_, _)
LegacyItems(c, items) ==
    IF items = <<>> THEN c
    ELSE LegacyItems(LegacyItem(c, Head(items)), Tail(items))

RECURSIVE SumAmounts(_)
SumAmounts(items) ==
    IF items = <<>> THEN 0 ELSE Head(items).amount + SumAmounts(Tail(items))

\* Lines 276-482: the rows, the total, the stamp and the bottom bar.
LegacyBody(dc, d) ==
    LET t == d.transaction
        detailed == Some(d.lineItems) /\ Val(d.lineItems) # <<>>
        display == IF t.currency = "BDT" THEN t.amountBDT ELSE t.amount
        start == PageHeight - 36000 - 1440
        rows ==
            IF detailed
            THEN LET c == LegacyItems([doc |-> dc, y |-> start], Val(d.lineItems))
                 IN  [doc |-> Draw(c.doc, <<Cmd("rows.rule", "line", c.y - 720, <<>>, 0)>>),
                      y |-> c.y - 720]
            ELSE [doc |-> Draw(dc,
                      << Cmd("item.title", "text", start - 1440,
                             << IF t.category = "OTHER EXPENSES" THEN t.payee
                                ELSE t.category, SP, "-", SP, "month" >>,
                             MonthOf(t.date)),
                         Cmd("item.amount", "text", start - 1440, <<>>, toFixed2(display)),
                         Cmd("rows.rule", "line", start - 2880, <<>>, 0) >>),
                  y |-> start - 2880]
        totalAmount == IF detailed THEN SumAmounts(Val(d.lineItems)) ELSE display
        yTotal == rows.y - 2880
    IN  Draw(rows.doc,
            << Cmd("totals.totalLabel", "text", yTotal, <<"TOTAL">>, 0),
               Cmd("totals.total", "text", yTotal,
                   <<legacyCurrencySymbol(t.currency), SP>>, toFixed2(totalAmount)) >>
            \o (IF d.isPaid
                THEN << Cmd("paid.frame", "rect", 10800 - 2520, <<>>, 5040),
                        Cmd("paid.inner", "rect", 10800 - 2160, <<>>, 4320),
                        Cmd("paid.text", "text", 10800 - 1000, <<"PAID">>, 0) >>
                ELSE <<>>)
            \o <<Cmd("footer.band", "rect", 0, <<>>, 3600)>>)

-----------------------------------------------------------------------------
(* generateInvoiceForTransaction (489-537) *)

\* Lines 506-523: the ModernInvoiceData built from a stored transaction
\* whose lineItemsJson is set.
ModernDataOf(t) ==
    [metadata |-> [client |-> t.payee, project |-> t.projectName,
                   duration |-> t.duration,
                   invoiceNumber |-> Or(t.invoiceNumber, getInvoiceNumber(t)),
                   notes |-> t.notes],
     currency |-> t.currency,
     lineItems |-> Val(t.lineItemsJson),
     totals |-> <<NoBreakdown(IF t.currency = "BDT" THEN t.amountBDT ELSE t.amount)>>,
     transaction |-> <<>>,
     isPaid |-> t.paymentStatus = "PAID",
     invoiceDate |-> getInvoiceDate(t)]

\* Lines 529-534: the InvoiceData of the legacy generator.
LegacyDataOf(t) ==
    [transaction |-> t, isPaid |-> t.paymentStatus = "PAID",
     invoiceNumber |-> getInvoiceNumber(t), invoiceDate |-> getInvoiceDate(t),
     lineItems |-> <<>>, duration |-> "", projectName |-> ""]

-----------------------------------------------------------------------------
(* The inputs the model draws from *)

SeqUpTo(S, n) == UNION {[1..k -> S] : k \in 0..n}
Rep(n, x) == [k \in 1..n |-> x]

\* Words of a bullet: the empty word, two that fit on one line together,
\* one that fits with neither, and one wider than any maxWidth.
Words == {<<>>, <<"ab">>, <<"cd">>, <<"W">>}
WideWord == <<"W">>

\* Every bullet of 1..MaxWords words.
WrapDetails == {Join(ws) : ws \in SeqUpTo(Words, MaxWords) \ {<<>>}}

MkItem(description, details, amount) ==
    [title |-> <<"Item">>, description |-> description, details |-> details,
     amount |-> amount]

Descriptions == {<<>>, <<"about">>}

\* Layout inputs: items without bullets, with MaxDetails empty bullets, with
\* MaxDetails bullets of one line and with MaxDetails bullets of three lines.
LayoutDetails == {<<>>, <<"ab">>, Join(<<WideWord, WideWord, WideWord>>)}
LayoutItems ==
    {MkItem(ds, dl, 100000) :
        ds \in Descriptions,
        dl \in {<<>>} \cup {Rep(MaxDetails, b) : b \in LayoutDetails}}

Amounts == {1004, 2996, 120000}
PlainItems == {MkItem(<<>>, <<>>, a) : a \in Amounts}

OptAmounts == {<<>>, <<0>>, <<5000>>, <<-5000>>}
TotalsChoices ==
    {<<>>} \cup
    {<<[subtotal |-> s, tax |-> x, taxRate |-> r, discount |-> ds, total |-> 4000]>> :
        s \in OptAmounts, x \in OptAmounts, ds \in OptAmounts, r \in {<<>>, <<20>>}}

BaseModern(items) ==
    [metadata |-> [client |-> "Acme", project |-> "", duration |-> "",
                   invoiceNumber |-> "INV-7", notes |-> ""],
     currency |-> "GBP",
     lineItems |-> items,
     totals |-> <<>>,
     transaction |-> <<>>,
     isPaid |-> FALSE,
     invoiceDate |-> DateLiteral("1 May 2025")]

\* The transaction a ModernInvoiceData may carry for legacy support (41-53).
EmbeddedTransaction ==
    [payee |-> "Payee", currency |-> "USD", invoiceNumber |-> "INV-T", date |-> 45]

\* Lists of up to n layout items in which all items but the first, or all
\* items but the last, are of one kind.
LayoutLists(n) ==
    {<<>>} \cup
    UNION {{[i \in 1..k |-> IF i = 1 THEN a ELSE b],
            [i \in 1..k |-> IF i = k THEN b ELSE a]} :
           k \in 1..n, a \in LayoutItems, b \in LayoutItems}

\* The layout lists, paid and unpaid, without totals; the shorter lists also
\* with a breakdown (the taller totals box).
LayoutInputs ==
    {[BaseModern(items) EXCEPT !.isPaid = p] :
        items \in LayoutLists(MaxItems), p \in BOOLEAN}
    \cup {[BaseModern(items) EXCEPT !.isPaid = TRUE,
              !.totals = <<[NoBreakdown(300000) EXCEPT !.subtotal = <<300000>>]>>] :
             items \in LayoutLists(MaxItems - 1)}

ModernWrapInputs ==
    {BaseModern(<<MkItem(<<>>, <<b>>, 100000)>>) : b \in WrapDetails}

\* Every list of plain items without totals and with a bare total, and one
\* item with every choice of totals.
TotalsInputs ==
    {[BaseModern(items) EXCEPT !.totals = t] :
        items \in SeqUpTo(PlainItems, MaxItems), t \in {<<>>, <<NoBreakdown(4000)>>}}
    \cup {[BaseModern(<<MkItem(<<>>, <<>>, 2996)>>) EXCEPT !.totals = t] :
             t \in TotalsChoices}

MetadataInputs ==
    {[BaseModern(<<MkItem(<<>>, <<>>, 100000)>>) EXCEPT
        !.metadata = [client |-> cl, project |-> pr, duration |-> du,
                      invoiceNumber |-> nr, notes |-> nt],
        !.currency = cu, !.invoiceDate = dt, !.transaction = tr, !.isPaid = p] :
        cl \in {"", "Acme"}, pr \in {"", "Site"}, du \in {"", "May"},
        nr \in {"", "INV-7"}, nt \in {"", "Thanks"}, cu \in {"", "BDT", "XYZ"},
        dt \in {NoDate, DateLiteral("1 May 2025")},
        tr \in {<<>>, <<EmbeddedTransaction>>}, p \in BOOLEAN}

\* Items with a description and MaxDetails bullets of three different words
\* that wrap into three lines: the bullet list of a later item runs across a
\* page boundary.
SplitInputs ==
    {BaseModern(Rep(k, MkItem(<<"about">>,
                              Rep(MaxDetails, Join(<<<<"ab">>, <<"cd">>, WideWord>>)),
                              100000))) :
        k \in 1..MaxItems}

ModernInputs ==
    LayoutInputs \cup ModernWrapInputs \cup TotalsInputs \cup MetadataInputs
    \cup SplitInputs

\* Stored transactions, as prisma.transaction.findUnique returns them.
StoredLineItems ==
    {<<>>, <<MkItem(<<>>, <<>>, 2994)>>,
     <<MkItem(<<>>, <<>>, 1004), MkItem(<<"about">>, <<<<"ab">>>>, 2996)>>}

Transactions ==
    {[type |-> ty, payee |-> "Payee", category |-> ca, amount |-> 2994,
      currency |-> cu, amountBDT |-> 329340, date |-> 45, dueDate |-> due,
      paymentStatus |-> st, invoiceNumber |-> nr, lineItemsJson |-> js,
      projectName |-> "", duration |-> "", notes |-> ""] :
        ty \in {"INCOME", "EXPENSE"}, ca \in {"OTHER EXPENSES", "SALARY"},
        cu \in {"BDT", "GBP"}, due \in {<<>>, <<50>>},
        st \in {"PAID", "UNPAID"}, nr \in {"", "INV-7"},
        js \in {<<>>} \cup {<<li>> : li \in StoredLineItems}}

BaseTransaction ==
    [type |-> "INCOME", payee |-> "Payee", category |-> "SALARY", amount |-> 2994,
     currency |-> "GBP", amountBDT |-> 329340, date |-> 45, dueDate |-> <<>>,
     paymentStatus |-> "UNPAID", invoiceNumber |-> "INV-7", lineItemsJson |-> <<>>,
     projectName |-> "", duration |-> "", notes |-> ""]

\* InvoiceData of direct calls of generateInvoicePDF.
BaseLegacy(items) ==
    [transaction |-> BaseTransaction, isPaid |-> FALSE, invoiceNumber |-> "INV-7",
     invoiceDate |-> DateLiteral("1 May 2025"), lineItems |-> <<items>>,
     duration |-> "", projectName |-> ""]

LegacyInputs ==
    {BaseLegacy(<<MkItem(<<>>, <<b>>, 100000)>>) : b \in WrapDetails}
    \cup {[BaseLegacy(items) EXCEPT !.isPaid = p, !.duration = du, !.projectName = pr] :
             items \in SeqUpTo(PlainItems, 2),
             p \in BOOLEAN, du \in {"", "May"}, pr \in {"", "Site"}}

\* The requests: a direct call of either generator, or
\* generateInvoiceForTransaction for a stored or a missing transaction.
ModernCalls == {[entry |-> "modern", arg |-> d] : d \in ModernInputs}
LegacyCalls == {[entry |-> "legacy", arg |-> d] : d \in LegacyInputs}
TransactionCalls ==
    {[entry |-> "forTransaction", arg |-> a] :
        a \in {<<>>} \cup {<<t>> : t \in Transactions}}

None == [entry |-> "none"]

-----------------------------------------------------------------------------
(* The HTTP API: sessions, permissions, money, validation *)

\* rbac.ts 6-11.
UserRole == {"ADMIN", "MANAGER", "ACCOUNTANT", "VIEWER"}

\* rbac.ts 54-118: the transaction, invoice and report permissions of each
\* role.
ROLE_PERMISSIONS ==
    [role \in UserRole |->
        CASE role = "ADMIN" ->
                {"TRANSACTION_CREATE", "TRANSACTION_READ", "TRANSACTION_UPDATE",
                 "TRANSACTION_DELETE", "INVOICE_GENERATE", "INVOICE_READ",
                 "REPORT_VIEW", "REPORT_EXPORT"}
          [] role = "MANAGER" ->
                {"TRANSACTION_CREATE", "TRANSACTION_READ", "TRANSACTION_UPDATE",
                 "TRANSACTION_DELETE", "INVOICE_GENERATE", "INVOICE_READ",
                 "REPORT_VIEW", "REPORT_EXPORT"}
          [] role = "ACCOUNTANT" ->
                {"TRANSACTION_CREATE", "TRANSACTION_READ", "TRANSACTION_UPDATE",
                 "INVOICE_GENERATE", "INVOICE_READ", "REPORT_VIEW", "REPORT_EXPORT"}
          [] role = "VIEWER" ->
                {"TRANSACTION_READ", "INVOICE_READ", "REPORT_VIEW"}]

\* rbac.ts 127-130.
hasPermission(role, permission) ==
    IF role \in DOMAIN ROLE_PERMISSIONS THEN permission \in ROLE_PERMISSIONS[role] ELSE FALSE

\* An authorize that lets every session with a role through.
authorizeAnyRole(userRole, requiredPermission) == userRole # ""

\* rbac.ts 172-181: TRUE when authorize returns, FALSE when it throws.  The
\* role "" stands for a session without a role.
authorize(userRole, requiredPermission) ==
    /\ userRole # ""
    /\ hasPermission(userRole, requiredPermission)

\* rbac.ts 189-191.
getUserRole(session) == Val(session).role

\* getServerSession: <<>> without a session, else the user with its role.
Sessions ==
    {<<>>} \cup {<<[email |-> "user@e2w", role |-> role]>> : role \in UserRole \cup {""}}

\* financial.ts 43-60, on thousandths: the value rounded to hundredths, a tie
\* going to the even hundredth.
roundCurrency(value) ==
    LET floor == value \div 10
        fraction == value % 10
    IN  IF fraction = 5 THEN (IF floor % 2 = 0 THEN floor ELSE floor + 1) * 10
        ELSE IF fraction > 5 THEN (floor + 1) * 10
        ELSE floor * 10

\* financial.ts 70-81.
convertCurrency(amount, exchangeRate) == roundCurrency(amount * exchangeRate)

\* financial.ts 10-26: the hard limits of each pair.
EXCHANGE_RATE_RANGES ==
    [c \in {"USD", "GBP", "EUR"} |->
        CASE c = "USD" -> [min |-> 50, max |-> 200]
          [] c = "GBP" -> [min |-> 70, max |-> 250]
          [] c = "EUR" -> [min |-> 60, max |-> 220]]

\* financial.ts 165-229 for a rate to BDT: is the rate valid.
validateExchangeRate(fromCurrency, rate) ==
    /\ rate > 0
    /\ fromCurrency \in DOMAIN EXCHANGE_RATE_RANGES =>
          /\ rate >= EXCHANGE_RATE_RANGES[fromCurrency].min
          /\ rate <= EXCHANGE_RATE_RANGES[fromCurrency].max

\* A request body is a record of the fields it carries; a nullable field
\* holds <<>> for null.  Has: the field is not undefined.
Has(body, f) == f \in DOMAIN body

\* JavaScript truthiness of a nullable numeric or date field of the body.
Truthy(body, f) == Has(body, f) /\ Some(body[f]) /\ Val(body[f]) # 0

\* transaction.ts 9-30: the checks on the fields that are present.
FieldsValid(body) ==
    /\ Has(body, "amount") => body.amount > 0
    /\ Has(body, "amountBDT") => body.amountBDT > 0
    /\ (Has(body, "exchangeRate") /\ Some(body.exchangeRate)) => Val(body.exchangeRate) > 0

\* transaction.ts 31-55: the two refinements.
Refinements(body) ==
    /\ ~((~Has(body, "currency") \/ body.currency # "BDT") /\ ~Truthy(body, "exchangeRate"))
    /\ ~((Has(body, "paymentStatus") /\ body.paymentStatus = "PAID")
         /\ ~Truthy(body, "paymentDate"))

\* transaction.ts 60: does createTransactionSchema.parse accept the body.
createTransactionSchema(body) ==
    /\ {"type", "amount", "currency", "amountBDT", "paymentStatus"} \subseteq DOMAIN body
    /\ FieldsValid(body)
    /\ Refinements(body)

\* transaction.ts 61: does updateTransactionSchema.parse accept the body.
\* Whether partial() keeps the refinements is the library's choice.
updateTransactionSchema(body, keepsRefinements) ==
    /\ FieldsValid(body)
    /\ keepsRefinements => Refinements(body)

\* The tables and the exchange with the client before any request.
ApiAtRest ==
    /\ transactions = <<>>
    /\ recurringTemplates = <<>>
    /\ exchangeRates = [c \in {"USD"} |-> <<>>]
    /\ response = [endpoint |-> "none", status |-> 0, ids |-> {}]
    /\ partialKeepsRefinements = FALSE
    /\ cronSecret = ""
    /\ inflight = <<>>

-----------------------------------------------------------------------------
(* The state machine *)

Init ==
    /\ \/ \E c \in ModernCalls : call = [r \in Inv |-> IF r = 1 THEN c ELSE None]
       \/ \E c \in LegacyCalls : call = [r \in Inv |-> IF r = 1 THEN c ELSE None]
       \/ \E c \in TransactionCalls : call = [r \in Inv |-> IF r = 1 THEN c ELSE None]
    /\ pc = [r \in Inv |-> IF r = 1 THEN "call" ELSE "idle"]
    /\ data = [r \in Inv |-> None]
    /\ loc = [r \in Inv |-> None]
    /\ doc = [r \in Inv |-> <<>>]
    /\ currentY = [r \in Inv |-> 0]
    /\ calculatedSubtotal = [r \in Inv |-> 0]
    /\ idx = [r \in Inv |-> 0]
    /\ det = [r \in Inv |-> 0]
    /\ result = [r \in Inv |-> "pending"]
    /\ logoReadable \in BOOLEAN
    /\ clock = 1
    /\ ApiAtRest

\* A caller invokes generateModernInvoicePDF(data).
CallModern(r) ==
    /\ pc[r] = "call" /\ call[r].entry = "modern"
    /\ data' = [data EXCEPT ![r] = call[r].arg]
    /\ pc' = [pc EXCEPT ![r] = "m.create"]
    /\ UNCHANGED <<call, loc, doc, currentY, calculatedSubtotal, idx, det, result,
                   logoReadable, clock>>
    /\ UNCHANGED apiVars

\* A caller invokes generateInvoicePDF(invoiceData).
CallLegacy(r) ==
    /\ pc[r] = "call" /\ call[r].entry = "legacy"
    /\ data' = [data EXCEPT ![r] = call[r].arg]
    /\ pc' = [pc EXCEPT ![r] = "l.create"]
    /\ UNCHANGED <<call, loc, doc, currentY, calculatedSubtotal, idx, det, result,
                   logoReadable, clock>>
    /\ UNCHANGED apiVars

\* generateInvoiceForTransaction (489-537).
ForTransaction(r) ==
    /\ pc[r] = "call" /\ call[r].entry = "forTransaction"
    /\ IF ~Some(call[r].arg)
       THEN /\ result' = [result EXCEPT ![r] = "error"]
            /\ pc' = [pc EXCEPT ![r] = "done"]
            /\ data' = data
       ELSE LET t == Val(call[r].arg)
            IN  /\ result' = result
                /\ IF Some(t.lineItemsJson)
                   THEN /\ data' = [data EXCEPT ![r] = ModernDataOf(t)]
                        /\ pc' = [pc EXCEPT ![r] = "m.create"]
                   ELSE /\ data' = [data EXCEPT ![r] = LegacyDataOf(t)]
                        /\ pc' = [pc EXCEPT ![r] = "l.create"]
    /\ UNCHANGED <<call, loc, doc, currentY, calculatedSubtotal, idx, det,
                   logoReadable, clock>>
    /\ UNCHANGED apiVars

\* Lines 134-137: the document and its first page.
CreateModern(r) ==
    /\ pc[r] = "m.create"
    /\ doc' = [doc EXCEPT ![r] = AddPage(<<>>, "first")]
    /\ pc' = [pc EXCEPT ![r] = "m.fonts"]
    /\ UNCHANGED <<call, data, loc, currentY, calculatedSubtotal, idx, det, result,
                   logoReadable, clock>>
    /\ UNCHANGED apiVars

\* Lines 139-171: fonts, colours, the extracted locals, the cursor.
EmbedFontsModern(r) ==
    /\ pc[r] = "m.fonts"
    /\ \E now \in (IF ReadsClock(data[r]) THEN clock..MaxClock ELSE {clock}) :
          /\ clock' = now
          /\ loc' = [loc EXCEPT ![r] = Extract(data[r], now)]
    /\ currentY' = [currentY EXCEPT ![r] = HeaderTop]
    /\ pc' = [pc EXCEPT ![r] = "m.logo"]
    /\ UNCHANGED <<call, data, doc, calculatedSubtotal, idx, det, result, logoReadable>>
    /\ UNCHANGED apiVars

\* Lines 173-196.
LogoModern(r) ==
    /\ pc[r] = "m.logo"
    /\ doc' = [doc EXCEPT ![r] = Draw(@, LogoCmds(logoReadable))]
    /\ pc' = [pc EXCEPT ![r] = "m.header"]
    /\ UNCHANGED <<call, data, loc, currentY, calculatedSubtotal, idx, det, result,
                   logoReadable, clock>>
    /\ UNCHANGED apiVars

\* A header step that keeps the layout cursor in one variable shared by all
\* invocations.
HeaderModernSharedCursor(r) ==
    /\ pc[r] = "m.header"
    /\ LET h == Header(loc[r])
       IN  /\ doc' = [doc EXCEPT ![r] = Draw(@, h.cmds)]
           /\ currentY' = [q \in Inv |-> h.y]
    /\ calculatedSubtotal' = [calculatedSubtotal EXCEPT ![r] = 0]
    /\ idx' = [idx EXCEPT ![r] = 0]
    /\ pc' = [pc EXCEPT ![r] = "m.items"]
    /\ UNCHANGED <<call, data, loc, det, result, logoReadable, clock>>
    /\ UNCHANGED apiVars

\* Lines 198-401.
HeaderModern(r) ==
    /\ pc[r] = "m.header"
    /\ LET h == Header(loc[r])
       IN  /\ doc' = [doc EXCEPT ![r] = Draw(@, h.cmds)]
           /\ currentY' = [currentY EXCEPT ![r] = h.y]
    /\ calculatedSubtotal' = [calculatedSubtotal EXCEPT ![r] = 0]
    /\ idx' = [idx EXCEPT ![r] = 0]
    /\ pc' = [pc EXCEPT ![r] = "m.items"]
    /\ UNCHANGED <<call, data, loc, det, result, logoReadable, clock>>
    /\ UNCHANGED apiVars

\* Lines 403-485: the head of one iteration of the item loop.
ItemModern(r) ==
    /\ pc[r] = "m.items"
    /\ idx[r] < Len(data[r].lineItems)
    /\ LET item == data[r].lineItems[idx[r] + 1]
           c == ItemHead([doc |-> doc[r], y |-> currentY[r]], item, idx[r] + 1, loc[r])
       IN  /\ calculatedSubtotal' =
                 [calculatedSubtotal EXCEPT ![r] = AddAmount(@, item.amount)]
           /\ doc' = [doc EXCEPT ![r] = c.doc]
           /\ currentY' = [currentY EXCEPT ![r] = c.y]
    /\ det' = [det EXCEPT ![r] = 0]
    /\ pc' = [pc EXCEPT ![r] = "m.details"]
    /\ UNCHANGED <<call, data, loc, idx, result, logoReadable, clock>>
    /\ UNCHANGED apiVars

\* Lines 489-539: one iteration of the loop over the item's details.
DetailModern(r) ==
    /\ pc[r] = "m.details"
    /\ det[r] < Len(data[r].lineItems[idx[r] + 1].details)
    /\ LET detail == data[r].lineItems[idx[r] + 1].details[det[r] + 1]
           c == PlaceDetail([doc |-> doc[r], y |-> currentY[r]], detail,
                            ModernWrap(loc[r].invoiceNumber))
       IN  /\ doc' = [doc EXCEPT ![r] = c.doc]
           /\ currentY' = [currentY EXCEPT ![r] = c.y]
    /\ det' = [det EXCEPT ![r] = @ + 1]
    /\ UNCHANGED <<call, pc, data, loc, calculatedSubtotal, idx, result,
                   logoReadable, clock>>
    /\ UNCHANGED apiVars

\* Lines 542-555: the end of one iteration of the item loop.
ItemEndModern(r) ==
    /\ pc[r] = "m.details"
    /\ det[r] = Len(data[r].lineItems[idx[r] + 1].details)
    /\ LET c == ItemTail([doc |-> doc[r], y |-> currentY[r]], idx[r] + 1,
                         Len(data[r].lineItems))
       IN  /\ doc' = [doc EXCEPT ![r] = c.doc]
           /\ currentY' = [currentY EXCEPT ![r] = c.y]
    /\ idx' = [idx EXCEPT ![r] = @ + 1]
    /\ pc' = [pc EXCEPT ![r] = "m.items"]
    /\ UNCHANGED <<call, data, loc, calculatedSubtotal, det, result, logoReadable,
                   clock>>
    /\ UNCHANGED apiVars

\* Lines 561-684, after the loop.
TotalsModern(r) ==
    /\ pc[r] = "m.items"
    /\ idx[r] = Len(data[r].lineItems)
    /\ LET c == DrawTotals([doc |-> doc[r], y |-> currentY[r]], data[r],
                           calculatedSubtotal[r], loc[r])
       IN  /\ doc' = [doc EXCEPT ![r] = c.doc]
           /\ currentY' = [currentY EXCEPT ![r] = c.y]
    /\ pc' = [pc EXCEPT ![r] = "m.paid"]
    /\ UNCHANGED <<call, data, loc, calculatedSubtotal, idx, det, result, logoReadable,
                   clock>>
    /\ UNCHANGED apiVars

\* Lines 690-715.
PaidModern(r) ==
    /\ pc[r] = "m.paid"
    /\ doc' = [doc EXCEPT ![r] = Draw(@, PaidStamp(currentY[r], loc[r]))]
    /\ pc' = [pc EXCEPT ![r] = "m.notes"]
    /\ UNCHANGED <<call, data, loc, currentY, calculatedSubtotal, idx, det, result,
                   logoReadable, clock>>
    /\ UNCHANGED apiVars

\* Lines 721-744.
FinishModern(r) ==
    /\ pc[r] = "m.notes"
    /\ doc' = [doc EXCEPT ![r] =
                 Draw(@, NotesAndFooter(currentY[r],
                            totalsBoxHeight(TotalsOf(data[r], calculatedSubtotal[r])),
                            loc[r]))]
    /\ pc' = [pc EXCEPT ![r] = "m.save"]
    /\ UNCHANGED <<call, data, loc, currentY, calculatedSubtotal, idx, det, result,
                   logoReadable, clock>>
    /\ UNCHANGED apiVars

\* Lines 746-748: pdfDoc.save() and the return.
SaveModern(r) ==
    /\ pc[r] = "m.save"
    /\ result' = [result EXCEPT ![r] = "bytes"]
    /\ pc' = [pc EXCEPT ![r] = "done"]
    /\ UNCHANGED <<call, data, loc, doc, currentY, calculatedSubtotal, idx, det,
                   logoReadable, clock>>
    /\ UNCHANGED apiVars

\* invoice-generator.ts 90-113.
CreateLegacy(r) ==
    /\ pc[r] = "l.create"
    /\ doc' = [doc EXCEPT ![r] = Draw(AddPage(<<>>, "first"), LegacyBand)]
    /\ pc' = [pc EXCEPT ![r] = "l.logo"]
    /\ UNCHANGED <<call, data, loc, currentY, calculatedSubtotal, idx, det, result,
                   logoReadable, clock>>
    /\ UNCHANGED apiVars

\* invoice-generator.ts 115-131.
LogoLegacy(r) ==
    /\ pc[r] = "l.logo"
    /\ doc' = [doc EXCEPT ![r] = Draw(@, LegacyLogoCmds(logoReadable))]
    /\ pc' = [pc EXCEPT ![r] = "l.body"]
    /\ UNCHANGED <<call, data, loc, currentY, calculatedSubtotal, idx, det, result,
                   logoReadable, clock>>
    /\ UNCHANGED apiVars

\* invoice-generator.ts 133-482.
BodyLegacy(r) ==
    /\ pc[r] = "l.body"
    /\ doc' = [doc EXCEPT ![r] = LegacyBody(Draw(@, LegacyHeader(data[r])), data[r])]
    /\ pc' = [pc EXCEPT ![r] = "l.save"]
    /\ UNCHANGED <<call, data, loc, currentY, calculatedSubtotal, idx, det, result,
                   logoReadable, clock>>
    /\ UNCHANGED apiVars

\* invoice-generator.ts 484-486.
SaveLegacy(r) ==
    /\ pc[r] = "l.save"
    /\ result' = [result EXCEPT ![r] = "bytes"]
    /\ pc' = [pc EXCEPT ![r] = "done"]
    /\ UNCHANGED <<call, data, loc, doc, currentY, calculatedSubtotal, idx, det,
                   logoReadable, clock>>
    /\ UNCHANGED apiVars

\* The caller repeats the request with the same input once the first
\* rendering has returned.
CallAgain ==
    /\ pc[1] = "done" /\ pc[2] = "idle"
    /\ call' = [call EXCEPT ![2] = call[1]]
    /\ pc' = [pc EXCEPT ![2] = "call"]
    /\ UNCHANGED <<data, loc, doc, currentY, calculatedSubtotal, idx, det, result,
                   logoReadable, clock>>
    /\ UNCHANGED apiVars

Next ==
    \/ \E r \in Inv :
          \/ CallModern(r) \/ CallLegacy(r) \/ ForTransaction(r)
          \/ CreateModern(r) \/ EmbedFontsModern(r) \/ LogoModern(r)
          \/ HeaderModern(r) \/ ItemModern(r) \/ DetailModern(r)
          \/ ItemEndModern(r) \/ TotalsModern(r)
          \/ PaidModern(r) \/ FinishModern(r) \/ SaveModern(r)
          \/ CreateLegacy(r) \/ LogoLegacy(r) \/ BodyLegacy(r) \/ SaveLegacy(r)
    \/ CallAgain

Spec == Init /\ [][Next]_vars

-----------------------------------------------------------------------------
(* Two invocations of generateModernInvoicePDF in flight at once *)

\* The invoices rendered concurrently: without and with pagination, paid and
\* unpaid.  Each carries its invoiceDate, so that no rendering reads the clock.
ConcurrentInputs ==
    {[BaseModern(items) EXCEPT !.isPaid = p] :
        items \in {<<MkItem(<<>>, <<>>, 1004)>>,
                   <<MkItem(<<"about">>, <<>>, 2996)>>,
                   <<MkItem(<<>>, Rep(MaxDetails, Join(<<WideWord, WideWord, WideWord>>)),
                            100000)>>,
                   <<MkItem(<<>>, <<>>, 1004),
                     MkItem(<<>>, Rep(MaxDetails, Join(<<WideWord, WideWord, WideWord>>)),
                            100000)>>},
        p \in BOOLEAN}

\* Both callers have invoked the generator, each with its own invoice.
InitConcurrent ==
    /\ \E d1 \in ConcurrentInputs : \E d2 \in ConcurrentInputs \ {d1} :
          call = [r \in Inv |-> [entry |-> "modern", arg |-> IF r = 1 THEN d1 ELSE d2]]
    /\ pc = [r \in Inv |-> "call"]
    /\ data = [r \in Inv |-> None]
    /\ loc = [r \in Inv |-> None]
    /\ doc = [r \in Inv |-> <<>>]
    /\ currentY = [r \in Inv |-> 0]
    /\ calculatedSubtotal = [r \in Inv |-> 0]
    /\ idx = [r \in Inv |-> 0]
    /\ det = [r \in Inv |-> 0]
    /\ result = [r \in Inv |-> "pending"]
    /\ logoReadable \in BOOLEAN
    /\ clock = 1
    /\ ApiAtRest

\* Every await and every synchronous stretch of either invocation may run
\* next.
NextConcurrent ==
    \E r \in Inv :
        \/ CallModern(r) \/ CreateModern(r) \/ EmbedFontsModern(r) \/ LogoModern(r)
        \/ HeaderModern(r) \/ ItemModern(r) \/ DetailModern(r) \/ ItemEndModern(r)
        \/ TotalsModern(r) \/ PaidModern(r) \/ FinishModern(r) \/ SaveModern(r)

SpecConcurrent == InitConcurrent /\ [][NextConcurrent]_vars

\* The item loop (403-555) run without interruption from item i on.
RECURSIVE RenderItems(_, _, _, _)
RenderItems(c, items, i, L) ==
    IF i > Len(items) THEN c
    ELSE RenderItems(
            ItemTail(PlaceDetails(ItemHead(c, items[i], i, L), items[i].details,
                                  ModernWrap(L.invoiceNumber)),
                     i, Len(items)),
            items, i + 1, L)

\* generateModernInvoicePDF (132-749) run alone from entry to return: the
\* document it saves.
RenderAlone(d, readable, now) ==
    LET L == Extract(d, now)
        h == Header(L)
        first == Draw(Draw(AddPage(<<>>, "first"), LogoCmds(readable)), h.cmds)
        c == RenderItems([doc |-> first, y |-> h.y], d.lineItems, 1, L)
        subtotal == SumAmounts(d.lineItems)
        t == DrawTotals(c, d, subtotal, L)
    IN  Draw(Draw(t.doc, PaidStamp(t.y, L)),
             NotesAndFooter(t.y, totalsBoxHeight(TotalsOf(d, subtotal)), L))

-----------------------------------------------------------------------------
(* The transaction endpoints *)

\* The PDF generators are not running.
PdfAtRest ==
    /\ call = [r \in Inv |-> None]
    /\ pc = [r \in Inv |-> "idle"]
    /\ data = [r \in Inv |-> None]
    /\ loc = [r \in Inv |-> None]
    /\ doc = [r \in Inv |-> <<>>]
    /\ currentY = [r \in Inv |-> 0]
    /\ calculatedSubtotal = [r \in Inv |-> 0]
    /\ idx = [r \in Inv |-> 0]
    /\ det = [r \in Inv |-> 0]
    /\ result = [r \in Inv |-> "pending"]
    /\ logoReadable = FALSE
    /\ clock = 1

\* A body without fields.
NoBody == [f \in {} |-> 0]

\* body.f, or null when the field is undefined.
Opt(body, f) == IF Has(body, f) THEN body[f] ELSE <<>>

\* A nullable number as JavaScript compares it: null counts as 0.
Num(v) == IF Some(v) THEN Val(v) ELSE 0

\* The currency, rate and BDT amount a client sends together.
Money ==
    {[currency |-> "BDT", exchangeRate |-> <<>>, amountBDT |-> 1004],
     [currency |-> "USD", exchangeRate |-> <<>>, amountBDT |-> 110440],
     [currency |-> "USD", exchangeRate |-> <<110>>, amountBDT |-> 110440],
     [currency |-> "USD", exchangeRate |-> <<300>>, amountBDT |-> 301200]}

\* The payment status and date a client sends together.
Payment ==
    {[paymentStatus |-> "UNPAID", paymentDate |-> <<>>],
     [paymentStatus |-> "PAID", paymentDate |-> <<>>],
     [paymentStatus |-> "PAID", paymentDate |-> <<1>>]}

\* Bodies of POST /api/transactions.
CreateBodies ==
    {[type |-> "INCOME", amount |-> 1004, currency |-> m.currency,
      exchangeRate |-> m.exchangeRate, amountBDT |-> m.amountBDT,
      paymentStatus |-> p.paymentStatus, paymentDate |-> p.paymentDate,
      notes |-> <<>>] : m \in Money, p \in Payment}

\* Bodies of PATCH /api/transactions/[id]: the amount resent or changed, the
\* payment marked or its date cleared, a rate outside the limits; some carry
\* the currency as well.
UpdateBodies ==
    {[amount |-> 1004],
     [amount |-> 2996],
     [paymentStatus |-> "PAID"],
     [paymentStatus |-> "PAID", paymentDate |-> <<1>>],
     [paymentDate |-> <<>>],
     [currency |-> "BDT", amount |-> 1004],
     [currency |-> "BDT", paymentDate |-> <<>>],
     [currency |-> "USD", exchangeRate |-> <<300>>]}

\* transactions/route.ts 200-244: the row POST creates.
CreatedRow(body) ==
    LET rate == Opt(body, "exchangeRate")
        amountBDT ==
            IF body.currency # "BDT" /\ Num(rate) # 0 /\ body.amountBDT = 0
            THEN convertCurrency(body.amount, Num(rate))
            ELSE IF body.currency = "BDT" /\ body.amountBDT = 0
            THEN roundCurrency(body.amount)
            ELSE body.amountBDT
    IN  [type |-> body.type,
         amount |-> body.amount,
         currency |-> body.currency,
         exchangeRate |-> IF Num(rate) # 0 THEN rate ELSE <<>>,
         amountBDT |-> amountBDT,
         paymentStatus |-> body.paymentStatus,
         paymentDate |-> Opt(body, "paymentDate"),
         notes |-> Opt(body, "notes"),
         invoiceGenerated |-> FALSE,
         recurringTemplateId |-> <<>>,
         deletedAt |-> <<>>,
         deletedBy |-> <<>>]

\* transactions/route.ts 155-287: the status of the answer and the table
\* after it.
PostOutcome(session, body) ==
    IF ~Some(session) THEN [status |-> 401, transactions |-> transactions]
    ELSE IF ~authorize(getUserRole(session), "TRANSACTION_CREATE")
    THEN [status |-> 403, transactions |-> transactions]
    ELSE IF ~createTransactionSchema(body)
    THEN [status |-> 400, transactions |-> transactions]
    ELSE IF /\ Truthy(body, "exchangeRate") /\ body.currency # "BDT"
            /\ ~validateExchangeRate(body.currency, Val(body.exchangeRate))
    THEN [status |-> 400, transactions |-> transactions]
    ELSE [status |-> 201, transactions |-> Append(transactions, CreatedRow(body))]

\* part_004 111-129: is a financial field of a PAID transaction being
\* changed.
LockedFieldChanged(existing, body) ==
    /\ existing.paymentStatus = "PAID"
    /\ \/ Has(body, "amount") /\ body.amount # existing.amount
       \/ Has(body, "currency") /\ body.currency # existing.currency
       \/ Has(body, "exchangeRate") /\ body.exchangeRate # existing.exchangeRate
       \/ Has(body, "amountBDT") /\ body.amountBDT # existing.amountBDT

\* part_004 155-184: updateData, the fields prisma.transaction.update writes.
UpdateData(existing, body) ==
    LET currency == IF Has(body, "currency") THEN body.currency ELSE existing.currency
        amount == IF Has(body, "amount") THEN body.amount ELSE existing.amount
        exchangeRate ==
            IF Has(body, "exchangeRate") /\ Some(body.exchangeRate)
            THEN body.exchangeRate ELSE existing.exchangeRate
        recalculate ==
            \/ Has(body, "currency") /\ body.currency # "BDT"
            \/ Has(body, "exchangeRate")
            \/ Has(body, "amount")
        fields ==
            IF recalculate /\ (currency = "BDT" \/ Num(exchangeRate) # 0)
            THEN DOMAIN body \cup {"amountBDT"} ELSE DOMAIN body
    IN  [f \in fields |->
            IF f = "amountBDT" /\ recalculate /\ currency # "BDT" /\ Num(exchangeRate) # 0
            THEN convertCurrency(amount, Num(exchangeRate))
            ELSE IF f = "amountBDT" /\ recalculate /\ currency = "BDT"
            THEN roundCurrency(amount)
            ELSE body[f]]

\* prisma.transaction.update({ where: { id }, data }) on one row.
UpdateRow(row, updateData) ==
    [f \in DOMAIN row |-> IF f \in DOMAIN updateData THEN updateData[f] ELSE row[f]]

\* part_004 64-247.
PatchOutcome(session, id, body) ==
    IF ~Some(session) THEN [status |-> 401, transactions |-> transactions]
    ELSE IF ~authorize(getUserRole(session), "TRANSACTION_UPDATE")
    THEN [status |-> 403, transactions |-> transactions]
    ELSE IF ~updateTransactionSchema(body, partialKeepsRefinements)
    THEN [status |-> 400, transactions |-> transactions]
    ELSE IF id \notin DOMAIN transactions
    THEN [status |-> 404, transactions |-> transactions]
    ELSE IF Some(transactions[id].deletedAt)
    THEN [status |-> 410, transactions |-> transactions]
    ELSE IF LockedFieldChanged(transactions[id], body)
    THEN [status |-> 422, transactions |-> transactions]
    ELSE IF /\ Has(body, "exchangeRate")
            /\ (IF Has(body, "currency") THEN body.currency
                ELSE transactions[id].currency) # "BDT"
            /\ ~validateExchangeRate(
                   IF Has(body, "currency") THEN body.currency
                   ELSE transactions[id].currency,
                   Num(body.exchangeRate))
    THEN [status |-> 400, transactions |-> transactions]
    ELSE [status |-> 200,
          transactions |->
              [transactions EXCEPT
                  ![id] = UpdateRow(@, UpdateData(transactions[id], body))]]

\* A DELETE that does not look at deletedAt and stamps the row again.
DeleteOutcomeRestamps(session, id, now) ==
    IF ~Some(session) THEN [status |-> 401, transactions |-> transactions]
    ELSE IF ~authorize(getUserRole(session), "TRANSACTION_DELETE")
    THEN [status |-> 403, transactions |-> transactions]
    ELSE IF id \notin DOMAIN transactions
    THEN [status |-> 404, transactions |-> transactions]
    ELSE [status |-> 200,
          transactions |->
              [transactions EXCEPT
                  ![id] = [@ EXCEPT !.deletedAt = <<now>>,
                                    !.deletedBy = <<Val(session).email>>]]]

\* part_004 250-336.
DeleteOutcome(session, id, now) ==
    IF ~Some(session) THEN [status |-> 401, transactions |-> transactions]
    ELSE IF ~authorize(getUserRole(session), "TRANSACTION_DELETE")
    THEN [status |-> 403, transactions |-> transactions]
    ELSE IF id \notin DOMAIN transactions
    THEN [status |-> 404, transactions |-> transactions]
    ELSE IF Some(transactions[id].deletedAt)
    THEN [status |-> 410, transactions |-> transactions]
    ELSE [status |-> 200,
          transactions |->
              [transactions EXCEPT
                  ![id] = [@ EXCEPT !.deletedAt = <<now>>,
                                    !.deletedBy = <<Val(session).email>>]]]

\* part_004 12-61: the status of GET /api/transactions/[id].
GetStatus(session, id) ==
    IF ~Some(session) THEN 401
    ELSE IF ~authorize(getUserRole(session), "TRANSACTION_READ") THEN 403
    ELSE IF id \notin DOMAIN transactions THEN 404
    ELSE IF Some(transactions[id].deletedAt) THEN 410
    ELSE 200

\* The ids a request may name: the rows of the table and one that is absent.
TxIds == 1..MaxTx

\* One request is answered, from the rows ids, and the transaction table is
\* left as the handler wrote it.
Answer(endpoint, status, ids, table) ==
    /\ response' = [endpoint |-> endpoint, status |-> status, ids |-> ids]
    /\ transactions' = table

\* POST /api/transactions.
PostTransaction ==
    /\ Len(transactions) < MaxTx
    /\ \E session \in Sessions, body \in CreateBodies :
          LET o == PostOutcome(session, body)
          IN  Answer("POST /api/transactions", o.status, {}, o.transactions)
    /\ UNCHANGED <<recurringTemplates, exchangeRates, partialKeepsRefinements, cronSecret>>
    /\ UNCHANGED <<pdfVars, inflight>>

\* PATCH /api/transactions/[id].
PatchTransaction ==
    /\ \E session \in Sessions, id \in TxIds, body \in UpdateBodies :
          LET o == PatchOutcome(session, id, body)
          IN  Answer("PATCH /api/transactions/[id]", o.status, {}, o.transactions)
    /\ UNCHANGED <<recurringTemplates, exchangeRates, partialKeepsRefinements, cronSecret>>
    /\ UNCHANGED <<pdfVars, inflight>>

\* DELETE /api/transactions/[id].
DeleteTransaction ==
    /\ \E session \in Sessions, id \in TxIds :
          LET o == DeleteOutcome(session, id, clock)
          IN  Answer("DELETE /api/transactions/[id]", o.status, {}, o.transactions)
    /\ UNCHANGED <<recurringTemplates, exchangeRates, partialKeepsRefinements, cronSecret>>
    /\ UNCHANGED <<pdfVars, inflight>>

\* GET /api/transactions/[id].
GetTransaction ==
    /\ \E session \in Sessions, id \in TxIds :
          LET status == GetStatus(session, id)
          IN  Answer("GET /api/transactions/[id]", status,
                     IF status = 200 THEN {id} ELSE {}, transactions)
    /\ UNCHANGED <<recurringTemplates, exchangeRates, partialKeepsRefinements, cronSecret>>
    /\ UNCHANGED <<pdfVars, inflight>>

\* Time passes between two requests.
Tick ==
    /\ clock < MaxClock
    /\ clock' = clock + 1
    /\ UNCHANGED <<call, pc, data, loc, doc, currentY, calculatedSubtotal, idx, det,
                   result, logoReadable>>
    /\ UNCHANGED apiVars

\* prisma.transaction.findMany: the rows whose fields equal those of the where
\* clause.
FindMany(where) ==
    {id \in DOMAIN transactions :
        \A field \in DOMAIN where : transactions[id][field] = where[field]}

\* transactions/route.ts 12-152 without search parameters: the rows listed.
ListOutcome(session) ==
    IF ~Some(session) THEN [status |-> 401, ids |-> {}]
    ELSE IF ~authorize(getUserRole(session), "TRANSACTION_READ")
    THEN [status |-> 403, ids |-> {}]
    ELSE [status |-> 200, ids |-> FindMany([deletedAt |-> <<>>])]

\* part_003 16-130 for a date range that spans every row: the rows the
\* report is computed from.
ReportOutcome(session) ==
    IF ~Some(session) THEN [status |-> 401, ids |-> {}]
    ELSE [status |-> 200, ids |-> FindMany([deletedAt |-> <<>>])]

\* part_002 7-140: the rows summed into totalIncome and totalExpenses.
DashboardOutcome(session) ==
    IF ~Some(session) THEN [status |-> 401, ids |-> {}]
    ELSE [status |-> 200,
          ids |-> FindMany([type |-> "INCOME"])
                  \cup FindMany([type |-> "EXPENSE"])]

\* invoices/route.ts 6-79 without search parameters: the rows listed.
InvoiceListOutcome(session) ==
    IF ~Some(session) THEN [status |-> 401, ids |-> {}]
    ELSE [status |-> 200, ids |-> FindMany(<<>>)]

\* invoices/[id]/route.ts 7-51 with generateInvoiceForTransaction
\* (invoice-generator.ts 489-537): the row whose invoice is returned.
InvoicePdfOutcome(session, id) ==
    IF ~Some(session) THEN [status |-> 401, ids |-> {}]
    ELSE IF id \notin DOMAIN transactions THEN [status |-> 500, ids |-> {}]
    ELSE [status |-> 200, ids |-> {id}]

\* A request that only reads.
Read(endpoint, o) ==
    /\ Answer(endpoint, o.status, o.ids, transactions)
    /\ UNCHANGED <<recurringTemplates, exchangeRates, partialKeepsRefinements, cronSecret>>
    /\ UNCHANGED <<pdfVars, inflight>>

\* GET /api/transactions.
ListTransactions ==
    \E session \in Sessions : Read("GET /api/transactions", ListOutcome(session))

\* GET /api/reports.
GetReports ==
    \E session \in Sessions : Read("GET /api/reports", ReportOutcome(session))

\* GET /api/dashboard/stats.
GetDashboardStats ==
    \E session \in Sessions :
        Read("GET /api/dashboard/stats", DashboardOutcome(session))

\* GET /api/invoices.
ListInvoices ==
    \E session \in Sessions : Read("GET /api/invoices", InvoiceListOutcome(session))

\* GET /api/invoices/[id].
GetInvoicePdf ==
    \E session \in Sessions, id \in TxIds :
        Read("GET /api/invoices/[id]", InvoicePdfOutcome(session, id))

\* The application is deployed with an empty ledger.
InitApi ==
    /\ PdfAtRest
    /\ transactions = <<>>
    /\ recurringTemplates = <<>>
    /\ exchangeRates = [c \in {"USD"} |-> <<>>]
    /\ response = [endpoint |-> "none", status |-> 0, ids |-> {}]
    /\ partialKeepsRefinements \in BOOLEAN
    /\ cronSecret = ""
    /\ inflight = <<>>

NextApi ==
    \/ PostTransaction \/ PatchTransaction \/ DeleteTransaction \/ GetTransaction
    \/ ListTransactions \/ GetReports \/ GetDashboardStats \/ ListInvoices
    \/ GetInvoicePdf

SpecApi == InitApi /\ [][NextApi]_vars

-----------------------------------------------------------------------------
(* Invoice generation and recurring generation *)

\* invoices/generate/route.ts 86-91: the rates used when the table has none.
defaultRates == [c \in {"USD", "GBP", "EUR"} |->
                    CASE c = "USD" -> 110 [] c = "GBP" -> 140 [] c = "EUR" -> 120]

\* prisma.exchangeRate.findFirst for the pair currency-BDT, latest first.
FindRate(currency) ==
    IF currency \in DOMAIN exchangeRates THEN exchangeRates[currency] ELSE <<>>

\* invoices/generate/route.ts 65-95, recurring/generate/route.ts 55-85: the
\* rate and the BDT amount stored for an amount in a currency.
RateAndAmountBDT(currency, amount) ==
    IF currency = "BDT" THEN [exchangeRate |-> <<>>, amountBDT |-> amount]
    ELSE IF Some(FindRate(currency))
    THEN [exchangeRate |-> FindRate(currency), amountBDT |-> amount * Val(FindRate(currency))]
    ELSE LET rateValue == IF currency \in DOMAIN defaultRates THEN defaultRates[currency] ELSE 1
         IN  [exchangeRate |-> <<rateValue>>, amountBDT |-> amount * rateValue]

\* Bodies of POST /api/invoices/generate: the amounts of the line items, the
\* client and the currency ("" when the field is missing).
InvoiceBodies ==
    {[lineItems |-> items, client |-> client, currency |-> currency] :
        items \in {<<>>, <<1004, 2996>>},
        client \in {"", "ACME"},
        currency \in {"", "BDT", "USD"}}

\* invoices/generate/route.ts 60-61: the amounts of the line items summed.
RECURSIVE LineItemsTotal(_)
LineItemsTotal(amounts) ==
    IF amounts = <<>> THEN 0 ELSE Head(amounts) + LineItemsTotal(Tail(amounts))

\* invoices/generate/route.ts 107-131: the row stored for an invoice without
\* totals.
InvoiceRow(body) ==
    LET calculatedTotal == LineItemsTotal(body.lineItems)
        currency == IF body.currency = "" THEN "GBP" ELSE body.currency
        money == RateAndAmountBDT(currency, calculatedTotal)
    IN  [type |-> "INCOME",
         amount |-> calculatedTotal,
         currency |-> currency,
         exchangeRate |-> money.exchangeRate,
         amountBDT |-> money.amountBDT,
         paymentStatus |-> "UNPAID",
         paymentDate |-> <<>>,
         notes |-> <<>>,
         invoiceGenerated |-> TRUE,
         recurringTemplateId |-> <<>>,
         deletedAt |-> <<>>,
         deletedBy |-> <<>>]

\* invoices/generate/route.ts 40-162.  The handler never asks for the session
\* of the request.
GenerateInvoiceOutcome(session, body) ==
    IF body.lineItems = <<>> THEN [status |-> 400, transactions |-> transactions]
    ELSE IF body.client = "" THEN [status |-> 400, transactions |-> transactions]
    ELSE [status |-> 200, transactions |-> Append(transactions, InvoiceRow(body))]

\* A where clause without the condition on endDate.
EligibleWhateverEndDate(template, now) ==
    /\ template.active
    /\ (~Some(template.nextScheduled) \/ Val(template.nextScheduled) <= now)

\* cron route 37-58, recurring/generate/route.ts 19-37: the where clause.
Eligible(template, now) ==
    /\ template.active
    /\ (~Some(template.nextScheduled) \/ Val(template.nextScheduled) <= now)
    /\ (~Some(template.endDate) \/ Val(template.endDate) >= now)

\* The templates findMany returns, in table order.
FindTemplates(now) ==
    SelectSeq([k \in DOMAIN recurringTemplates |-> k],
              LAMBDA k : Eligible(recurringTemplates[k], now))

\* Dates are day numbers of a calendar whose months all have DaysInMonth
\* days.  date-fns addMonths: the same day, amount months later.
addMonths(date, amount) == date + amount * DaysInMonth

\* Date.prototype.setDate: the given day of the month of the date; a day past
\* the end of the month runs on into the next one.
setDate(date, day) == (date \div DaysInMonth) * DaysInMonth + day - 1

\* recurring/generate/route.ts 118-128, cron route 117-131.
MonthsOf(frequency) ==
    CASE frequency = "MONTHLY" -> 1
      [] frequency = "QUARTERLY" -> 3
      [] frequency = "YEARLY" -> 12
      [] OTHER -> 0

\* recurring/generate/route.ts 42-113: the row stored for a template.
RecurringRow(k, now) ==
    LET template == recurringTemplates[k]
        money == RateAndAmountBDT(template.currency, template.amount)
    IN  [type |-> "EXPENSE",
         amount |-> template.amount,
         currency |-> template.currency,
         exchangeRate |-> money.exchangeRate,
         amountBDT |-> money.amountBDT,
         paymentStatus |-> "UNPAID",
         paymentDate |-> <<>>,
         notes |-> <<>>,
         invoiceGenerated |-> FALSE,
         recurringTemplateId |-> <<k>>,
         deletedAt |-> <<>>,
         deletedBy |-> <<>>]

\* recurring/generate/route.ts 115-139: the template after its transaction
\* was created.
RecurringAdvance(template, now) ==
    LET transactionDate == IF Some(template.nextScheduled)
                           THEN Val(template.nextScheduled) ELSE now
        nextScheduled == addMonths(transactionDate, MonthsOf(template.frequency))
        day == IF Some(template.dayOfMonth) THEN Val(template.dayOfMonth) ELSE 1
    IN  [template EXCEPT
            !.lastGenerated = <<now>>,
            !.nextScheduled = <<setDate(nextScheduled, day)>>]

\* cron route 71-112: the row stored for a template; the handler passes
\* neither a rate nor a BDT amount.
CronRow(k, now) ==
    LET template == recurringTemplates[k]
    IN  [type |-> "EXPENSE",
         amount |-> template.amount,
         currency |-> template.currency,
         exchangeRate |-> <<>>,
         amountBDT |-> 0,
         paymentStatus |-> "UNPAID",
         paymentDate |-> <<>>,
         notes |-> <<>>,
         invoiceGenerated |-> TRUE,
         recurringTemplateId |-> <<k>>,
         deletedAt |-> <<>>,
         deletedBy |-> <<>>]

\* cron route 114-145; a CUSTOM frequency advances by one month there.
CronAdvance(template, now) ==
    LET from == IF Some(template.nextScheduled)
                THEN Val(template.nextScheduled) ELSE template.startDate
        months == IF template.frequency = "CUSTOM" THEN 1
                  ELSE MonthsOf(template.frequency)
        nextScheduled == addMonths(from, months)
    IN  [template EXCEPT
            !.lastGenerated = <<now>>,
            !.nextScheduled =
                IF Some(template.dayOfMonth)
                THEN <<setDate(nextScheduled, Val(template.dayOfMonth))>>
                ELSE <<nextScheduled>>]

\* The loop over the templates found: each create either succeeds, and the
\* template is advanced, or throws into the catch of its iteration; created
\* is the set of templates whose create succeeded.
\* rows[k] is the row the handler creates for template k and advanced[k] the
\* template it writes back.
RunTemplates(found, created, rows, advanced) ==
    LET done == SelectSeq(found, LAMBDA k : k \in created)
    IN  [transactions |-> transactions \o [i \in DOMAIN done |-> rows[done[i]]],
         recurringTemplates |->
             [k \in DOMAIN recurringTemplates |->
                 IF \E i \in DOMAIN done : done[i] = k THEN advanced[k]
                 ELSE recurringTemplates[k]],
         count |-> Len(done)]

\* recurring/generate/route.ts 7-159.
RecurringOutcome(session, created, now) ==
    IF ~Some(session)
    THEN [status |-> 401, transactions |-> transactions,
          recurringTemplates |-> recurringTemplates]
    ELSE LET run == RunTemplates(FindTemplates(now), created,
                 [k \in DOMAIN recurringTemplates |-> RecurringRow(k, now)],
                 [k \in DOMAIN recurringTemplates |->
                     RecurringAdvance(recurringTemplates[k], now)])
         IN  [status |-> 200, transactions |-> run.transactions,
              recurringTemplates |-> run.recurringTemplates]

\* The Authorization headers a caller of the cron endpoint sends.
AuthHeaders == {"", "Bearer s3cret", "Bearer guess"}

\* A cron handler that compares no Authorization header.
CronOutcomeAnyHeader(authHeader, created, now) ==
    IF cronSecret = ""
    THEN [status |-> 500, transactions |-> transactions,
          recurringTemplates |-> recurringTemplates]
    ELSE LET run == RunTemplates(FindTemplates(now), created,
                 [k \in DOMAIN recurringTemplates |-> CronRow(k, now)],
                 [k \in DOMAIN recurringTemplates |->
                     CronAdvance(recurringTemplates[k], now)])
         IN  [status |-> 200, transactions |-> run.transactions,
              recurringTemplates |-> run.recurringTemplates]

\* cron route 11-175.
CronOutcome(authHeader, created, now) ==
    IF cronSecret = ""
    THEN [status |-> 500, transactions |-> transactions,
          recurringTemplates |-> recurringTemplates]
    ELSE IF authHeader # "Bearer s3cret"
    THEN [status |-> 401, transactions |-> transactions,
          recurringTemplates |-> recurringTemplates]
    ELSE LET run == RunTemplates(FindTemplates(now), created,
                 [k \in DOMAIN recurringTemplates |-> CronRow(k, now)],
                 [k \in DOMAIN recurringTemplates |->
                     CronAdvance(recurringTemplates[k], now)])
         IN  [status |-> 200, transactions |-> run.transactions,
              recurringTemplates |-> run.recurringTemplates]

\* The rows appended to the table by an outcome.
NewIds(o) == (Len(transactions) + 1)..Len(o.transactions)

\* POST /api/invoices/generate.
GenerateInvoice ==
    /\ Len(transactions) < MaxTx
    /\ \E session \in Sessions, body \in InvoiceBodies :
          LET o == GenerateInvoiceOutcome(session, body)
          IN  Answer("POST /api/invoices/generate", o.status, NewIds(o), o.transactions)
    /\ UNCHANGED <<recurringTemplates, exchangeRates, partialKeepsRefinements, cronSecret>>
    /\ UNCHANGED <<pdfVars, inflight>>

\* POST /api/recurring/generate.
GenerateRecurring ==
    /\ \E session \in Sessions, created \in SUBSET DOMAIN recurringTemplates :
          LET o == RecurringOutcome(session, created, clock)
          IN  /\ created \subseteq {k \in DOMAIN recurringTemplates :
                                      Eligible(recurringTemplates[k], clock)}
              /\ Len(o.transactions) <= MaxTx
              /\ Answer("POST /api/recurring/generate", o.status, NewIds(o), o.transactions)
              /\ recurringTemplates' = o.recurringTemplates
    /\ UNCHANGED <<exchangeRates, partialKeepsRefinements, cronSecret>>
    /\ UNCHANGED <<pdfVars, inflight>>

\* GET /api/cron/generate-recurring-invoices.
CronGenerate ==
    /\ \E authHeader \in AuthHeaders, created \in SUBSET DOMAIN recurringTemplates :
          LET o == CronOutcome(authHeader, created, clock)
          IN  /\ created \subseteq {k \in DOMAIN recurringTemplates :
                                      Eligible(recurringTemplates[k], clock)}
              /\ Len(o.transactions) <= MaxTx
              /\ Answer("GET /api/cron/generate-recurring-invoices", o.status, NewIds(o),
                        o.transactions)
              /\ recurringTemplates' = o.recurringTemplates
    /\ UNCHANGED <<exchangeRates, partialKeepsRefinements, cronSecret>>
    /\ UNCHANGED <<pdfVars, inflight>>

\* A monthly template of 2.996.
Template(active, nextScheduled, endDate, currency) ==
    [active |-> active, nextScheduled |-> nextScheduled, endDate |-> endDate,
     lastGenerated |-> <<>>, startDate |-> 1, frequency |-> "MONTHLY",
     dayOfMonth |-> <<>>, currency |-> currency, amount |-> 2996]

\* The recurring templates a ledger may hold: due, without a schedule and in
\* USD, due tomorrow, ending today, switched off, due with a CUSTOM
\* frequency, due and quarterly on the second day of the month.
TemplateChoices ==
    {Template(TRUE, <<1>>, <<>>, "BDT"),
     Template(TRUE, <<>>, <<>>, "USD"),
     Template(TRUE, <<2>>, <<>>, "BDT"),
     Template(TRUE, <<1>>, <<1>>, "BDT"),
     Template(FALSE, <<1>>, <<>>, "BDT"),
     [Template(TRUE, <<1>>, <<>>, "BDT") EXCEPT !.frequency = "CUSTOM"],
     [Template(TRUE, <<1>>, <<>>, "BDT") EXCEPT !.frequency = "QUARTERLY",
                                                !.dayOfMonth = <<2>>]}

\* The ledger holds MaxTemplates templates and no transaction; the rate table
\* has a USD rate or none.
InitBilling ==
    /\ PdfAtRest
    /\ transactions = <<>>
    /\ recurringTemplates \in [1..MaxTemplates -> TemplateChoices]
    /\ exchangeRates \in [{"USD"} -> {<<>>, <<125>>}]
    /\ response = [endpoint |-> "none", status |-> 0, ids |-> {}]
    /\ partialKeepsRefinements = FALSE
    /\ cronSecret \in {"", "s3cret"}
    /\ inflight = <<>>

NextBilling ==
    \/ GenerateInvoice \/ GenerateRecurring \/ CronGenerate
    \/ Tick

SpecBilling == InitBilling /\ [][NextBilling]_vars

-----------------------------------------------------------------------------
(* A cron run and a manual generate request, statement by statement *)

\* The two requests: GET /api/cron/generate-recurring-invoices with the
\* secret and POST /api/recurring/generate with a session.
Runs == {"cron", "manual"}

\* The local variables of a handler before it runs: now, templates (found),
\* the position of the for loop (at), results or generatedCount (success,
\* failed, errors) and, for each transaction created, the template and the
\* nextScheduled (or the run time) it was created for (generated).
RunAtRest ==
    [pc |-> "idle", now |-> 0, found |-> <<>>, at |-> 1,
     success |-> 0, failed |-> 0, errors |-> <<>>, generated |-> <<>>]

\* The template the for loop of a run is at, as findMany returned it.
Current(run) == inflight[run].found[inflight[run].at]

\* cron route 33-58, recurring/generate/route.ts 15-37: now and findMany.
StartRun(run) ==
    /\ inflight[run].pc = "idle"
    /\ LET ids == FindTemplates(clock)
       IN  inflight' = [inflight EXCEPT ![run] =
              [@ EXCEPT !.pc = "loop", !.now = clock,
                        !.found = [i \in DOMAIN ids |->
                                      [id |-> ids[i],
                                       template |-> recurringTemplates[ids[i]]]]]]
    /\ UNCHANGED <<transactions, recurringTemplates, exchangeRates, response,
                   partialKeepsRefinements, cronSecret>>
    /\ UNCHANGED pdfVars

\* cron route 89-112, recurring/generate/route.ts 97-113:
\* prisma.transaction.create succeeds.  The row takes amount and currency
\* from the template, which no run changes.
CreateFromTemplate(run) ==
    /\ inflight[run].pc = "loop"
    /\ inflight[run].at <= Len(inflight[run].found)
    /\ LET k == Current(run).id
           template == Current(run).template
           now == inflight[run].now
           scheduled == IF Some(template.nextScheduled)
                        THEN Val(template.nextScheduled) ELSE now
       IN  /\ transactions' = Append(transactions,
                                     IF run = "cron" THEN CronRow(k, now)
                                     ELSE RecurringRow(k, now))
           /\ inflight' = [inflight EXCEPT ![run] =
                  [@ EXCEPT !.pc = "created",
                            !.generated = Append(@, <<k, scheduled>>)]]
    /\ UNCHANGED <<recurringTemplates, exchangeRates, response,
                   partialKeepsRefinements, cronSecret>>
    /\ UNCHANGED pdfVars

\* A catch that counts the failure and leaves the loop.
CaughtLeavingLoop(run) ==
    [inflight EXCEPT ![run] =
        [@ EXCEPT !.pc = "loop", !.at = Len(inflight[run].found) + 1,
                  !.failed = @ + 1,
                  !.errors = Append(@, Current(run).id)]]

\* cron route 149-154, recurring/generate/route.ts 142-144: the catch of one
\* iteration; only the cron handler counts the failure.
Caught(run) ==
    IF run = "cron"
    THEN [inflight EXCEPT ![run] =
            [@ EXCEPT !.pc = "loop", !.at = @ + 1, !.failed = @ + 1,
                      !.errors = Append(@, Current(run).id)]]
    ELSE [inflight EXCEPT ![run] = [@ EXCEPT !.pc = "loop", !.at = @ + 1]]

\* prisma.transaction.create throws.
CreateThrows(run) ==
    /\ inflight[run].pc = "loop"
    /\ inflight[run].at <= Len(inflight[run].found)
    /\ inflight' = Caught(run)
    /\ UNCHANGED <<transactions, recurringTemplates, exchangeRates, response,
                   partialKeepsRefinements, cronSecret>>
    /\ UNCHANGED pdfVars

\* cron route 114-148, recurring/generate/route.ts 115-141:
\* prisma.recurringTemplate.update succeeds and the iteration is counted.
UpdateTemplate(run) ==
    /\ inflight[run].pc = "created"
    /\ LET k == Current(run).id
           template == Current(run).template
           now == inflight[run].now
           advanced == IF run = "cron" THEN CronAdvance(template, now)
                       ELSE RecurringAdvance(template, now)
       IN  recurringTemplates' =
              [recurringTemplates EXCEPT
                  ![k].lastGenerated = advanced.lastGenerated,
                  ![k].nextScheduled = advanced.nextScheduled]
    /\ inflight' = [inflight EXCEPT ![run] =
           [@ EXCEPT !.pc = "loop", !.at = @ + 1, !.success = @ + 1]]
    /\ UNCHANGED <<transactions, exchangeRates, response,
                   partialKeepsRefinements, cronSecret>>
    /\ UNCHANGED pdfVars

\* prisma.recurringTemplate.update throws after the transaction was created.
UpdateThrows(run) ==
    /\ inflight[run].pc = "created"
    /\ inflight' = Caught(run)
    /\ UNCHANGED <<transactions, recurringTemplates, exchangeRates, response,
                   partialKeepsRefinements, cronSecret>>
    /\ UNCHANGED pdfVars

\* cron route 157-164, recurring/generate/route.ts 147-151: the answer.
AnswerRun(run) ==
    /\ inflight[run].pc = "loop"
    /\ inflight[run].at > Len(inflight[run].found)
    /\ response' =
          IF run = "cron"
          THEN [endpoint |-> "GET /api/cron/generate-recurring-invoices",
                status |-> 200, ids |-> {},
                templatesProcessed |-> Len(inflight[run].found),
                results |-> [success |-> inflight[run].success,
                             failed |-> inflight[run].failed,
                             errors |-> inflight[run].errors]]
          ELSE [endpoint |-> "POST /api/recurring/generate",
                status |-> 200, ids |-> {},
                generatedCount |-> inflight[run].success]
    /\ inflight' = [inflight EXCEPT ![run] = [@ EXCEPT !.pc = "done"]]
    /\ UNCHANGED <<transactions, recurringTemplates, exchangeRates,
                   partialKeepsRefinements, cronSecret>>
    /\ UNCHANGED pdfVars

\* The ledger holds MaxRunTemplates templates, due or due tomorrow, and both
\* requests arrive.
InitOverlap ==
    /\ PdfAtRest
    /\ transactions = <<>>
    /\ recurringTemplates \in
          [1..MaxRunTemplates -> {Template(TRUE, <<1>>, <<>>, "BDT"),
                                  Template(TRUE, <<>>, <<>>, "USD"),
                                  Template(TRUE, <<2>>, <<>>, "BDT")}]
    /\ exchangeRates = [c \in {"USD"} |-> <<125>>]
    /\ response = [endpoint |-> "none", status |-> 0, ids |-> {}]
    /\ partialKeepsRefinements = FALSE
    /\ cronSecret = "s3cret"
    /\ inflight = [run \in Runs |-> RunAtRest]

NextOverlap ==
    \E run \in Runs :
        \/ StartRun(run) \/ CreateFromTemplate(run) \/ CreateThrows(run)
        \/ UpdateTemplate(run) \/ UpdateThrows(run) \/ AnswerRun(run)

SpecOverlap == InitOverlap /\ [][NextOverlap]_vars

-----------------------------------------------------------------------------
(* Invoice requests handled at the same time (invoices/[id]/route.ts 58-288) *)

\* The decimal digits of a natural number: Number.prototype.toString.
RECURSIVE Digits(_)
Digits(n) == IF n < 10 THEN <<n>> ELSE Append(Digits(n \div 10), n % 10)

\* String.prototype.padStart(4, '0') of a string of digits.
RECURSIVE padStart(_)
padStart(digits) == IF Len(digits) >= 4 THEN digits ELSE padStart(<<0>> \o digits)

\* parseInt(digits, 10).
RECURSIVE parseInt(_)
parseInt(digits) ==
    IF digits = <<>> THEN 0
    ELSE 10 * parseInt(SubSeq(digits, 1, Len(digits) - 1)) + digits[Len(digits)]

\* invoices/[id]/route.ts 156-159, 188: `${prefix}-${month}-${year}-` and the
\* padded sequence number; month and year are the month the day now lies in.
InvoiceNumber(transactionType, now, sequenceNum) ==
    [prefix |-> <<IF transactionType = "INCOME" THEN "INV" ELSE "EXP",
                  now \div DaysInMonth>>,
     digits |-> padStart(Digits(sequenceNum))]

\* invoices/[id]/route.ts 162-186: findMany startsWith the prefix, ordered by
\* invoiceNumber descending, take 1; the sequence number is the four digits
\* matched by /-(\d{4})$/ plus one, and 1 when nothing is found or matched.
\* Numbers of the same prefix and of four digits are ordered as their values.
NextSequenceNum(transactionType, now) ==
    LET prefix == InvoiceNumber(transactionType, now, 1).prefix
        existingInvoices == {i \in DOMAIN transactions :
                                transactions[i].invoiceNumber.prefix = prefix}
        lastInvoice == CHOOSE i \in existingInvoices :
                          \A j \in existingInvoices :
                              parseInt(transactions[j].invoiceNumber.digits)
                                 <= parseInt(transactions[i].invoiceNumber.digits)
    IN  IF existingInvoices = {} THEN 1
        ELSE IF Len(transactions[lastInvoice].invoiceNumber.digits) = 4
        THEN parseInt(transactions[lastInvoice].invoiceNumber.digits) + 1
        ELSE 1

\* The body every request of this part sends: one line item in BDT.
InvoiceBody == [lineItems |-> <<1004>>, client |-> "ACME", currency |-> "BDT"]

\* invoices/[id]/route.ts 194-217: the row of a request.
NumberedRow(transactionType, invoiceNumber) ==
    [InvoiceRow(InvoiceBody) EXCEPT !.type = transactionType]
        @@ [invoiceNumber |-> invoiceNumber]

\* A request before it arrives.
RequestAtRest == [pc |-> "idle", type |-> "INCOME", invoiceNumber |-> <<>>]

\* invoices/[id]/route.ts 62-189: the body is read and validated and the
\* invoice number is computed from the rows stored at that moment.
NumberInvoice(r) ==
    /\ inflight[r].pc = "idle"
    /\ \E transactionType \in {"INCOME", "EXPENSE"} :
          inflight' = [inflight EXCEPT ![r] =
              [pc |-> "numbered", type |-> transactionType,
               invoiceNumber |->
                  <<InvoiceNumber(transactionType, clock,
                                  NextSequenceNum(transactionType, clock))>>]]
    /\ UNCHANGED <<transactions, recurringTemplates, exchangeRates, response,
                   partialKeepsRefinements, cronSecret>>
    /\ UNCHANGED pdfVars

\* migration.sql 108-109: the unique index Transaction_invoiceNumber_key.
InvoiceNumberTaken(invoiceNumber) ==
    \E i \in DOMAIN transactions : transactions[i].invoiceNumber = invoiceNumber

\* invoices/[id]/route.ts 219-253: prisma.transaction.create stores the row
\* and the PDF is answered.
StoreInvoice(r) ==
    /\ inflight[r].pc = "numbered"
    /\ ~InvoiceNumberTaken(Val(inflight[r].invoiceNumber))
    /\ Answer("POST /api/invoices/[id]", 200, {Len(transactions) + 1},
              Append(transactions,
                     NumberedRow(inflight[r].type, Val(inflight[r].invoiceNumber))))
    /\ inflight' = [inflight EXCEPT ![r].pc = "stored"]
    /\ UNCHANGED <<recurringTemplates, exchangeRates, partialKeepsRefinements,
                   cronSecret>>
    /\ UNCHANGED pdfVars

\* invoices/[id]/route.ts 219, 254-287: prisma.transaction.create throws on
\* the unique index and the catch answers 500.
StoreRejected(r) ==
    /\ inflight[r].pc = "numbered"
    /\ InvoiceNumberTaken(Val(inflight[r].invoiceNumber))
    /\ Answer("POST /api/invoices/[id]", 500, {}, transactions)
    /\ inflight' = [inflight EXCEPT ![r].pc = "failed"]
    /\ UNCHANGED <<recurringTemplates, exchangeRates, partialKeepsRefinements,
                   cronSecret>>
    /\ UNCHANGED pdfVars

\* The ledger holds no invoice or the first invoices of this month, and
\* MaxRequests requests arrive.
InitInvoices ==
    /\ PdfAtRest
    /\ transactions \in
          {<<>>,
           <<NumberedRow("INCOME", InvoiceNumber("INCOME", clock, 1))>>,
           <<NumberedRow("INCOME", InvoiceNumber("INCOME", clock, 1)),
             NumberedRow("EXPENSE", InvoiceNumber("EXPENSE", clock, 1))>>}
    /\ recurringTemplates = <<>>
    /\ exchangeRates = [c \in {"USD"} |-> <<>>]
    /\ response = [endpoint |-> "none", status |-> 0, ids |-> {}]
    /\ partialKeepsRefinements = FALSE
    /\ cronSecret = ""
    /\ inflight = [r \in 1..MaxRequests |-> RequestAtRest]

NextInvoices ==
    \/ \E r \in 1..MaxRequests : NumberInvoice(r) \/ StoreInvoice(r) \/ StoreRejected(r)
    \/ Tick

SpecInvoices == InitInvoices /\ [][NextInvoices]_vars

-----------------------------------------------------------------------------
(* Partial payments (audit.ts 102-237) *)

\* The amountBDT of the payments a caller records: a refund, less than half a
\* cent, a part, nearly the whole.
PaymentAmounts == {-1000, 4, 1000, 2996}

\* audit.ts 122: payments.reduce((sum, payment) => sum + payment.amountBDT, 0).
RECURSIVE SumPayments(_)
SumPayments(payments) ==
    IF payments = <<>> THEN 0
    ELSE Head(payments).amountBDT + SumPayments(Tail(payments))

\* audit.ts 117-124.
calculateTotalPaid(transaction) == roundCurrency(SumPayments(transaction.payments))

\* A comparison of the amounts as they are, without rounding.
determinePaymentStatusUnrounded(totalAmount, paidAmount, dueDate, now) ==
    IF paidAmount >= totalAmount THEN "PAID"
    ELSE IF paidAmount > 0 THEN "PARTIALLY_PAID"
    ELSE IF Some(dueDate) /\ now > Val(dueDate) THEN "OVERDUE"
    ELSE "UNPAID"

\* audit.ts 134-159; now is the value of new Date().
determinePaymentStatus(totalAmount, paidAmount, dueDate, now) ==
    LET roundedTotal == roundCurrency(totalAmount)
        roundedPaid == roundCurrency(paidAmount)
    IN  IF roundedPaid >= roundedTotal THEN "PAID"
        ELSE IF roundedPaid > 0 THEN "PARTIALLY_PAID"
        ELSE IF Some(dueDate) /\ now > Val(dueDate) THEN "OVERDUE"
        ELSE "UNPAID"

\* audit.ts 192: the paymentDate of the first payment after sorting by date,
\* latest first; <<>> stands for undefined, which leaves the column alone.
LatestPaymentDate(payments) ==
    IF payments = <<>> THEN <<>>
    ELSE <<CHOOSE d \in {payments[i].paymentDate : i \in DOMAIN payments} :
              \A i \in DOMAIN payments : payments[i].paymentDate <= d>>

\* audit.ts 167-199: the row after the call.
updateTransactionPaymentStatus(transaction, now) ==
    LET totalPaid == calculateTotalPaid(transaction)
        newStatus == determinePaymentStatus(transaction.amountBDT, totalPaid,
                                            transaction.dueDate, now)
        latest == LatestPaymentDate(transaction.payments)
    IN  IF newStatus # transaction.paymentStatus
        THEN [transaction EXCEPT
                 !.paymentStatus = newStatus,
                 !.paymentDate = IF newStatus = "PAID" /\ Some(latest) THEN latest
                                 ELSE transaction.paymentDate]
        ELSE transaction

\* A caller records a payment against transaction 1
\* (prisma.payment.create, FINANCIAL_FIXES_SUMMARY.md 424-437).
CreatePayment ==
    /\ Len(transactions[1].payments) < MaxPayments
    /\ \E amountBDT \in PaymentAmounts :
          Answer("prisma.payment.create", 0, {1},
                 [transactions EXCEPT ![1].payments =
                     Append(@, [amountBDT |-> amountBDT, paymentDate |-> clock])])
    /\ UNCHANGED <<recurringTemplates, exchangeRates, partialKeepsRefinements, cronSecret>>
    /\ UNCHANGED <<pdfVars, inflight>>

\* The caller runs updateTransactionPaymentStatus on transaction 1.
UpdatePaymentStatus ==
    /\ Answer("updateTransactionPaymentStatus", 0, {1},
              [transactions EXCEPT ![1] = updateTransactionPaymentStatus(@, clock)])
    /\ UNCHANGED <<recurringTemplates, exchangeRates, partialKeepsRefinements, cronSecret>>
    /\ UNCHANGED <<pdfVars, inflight>>

\* The transactions payments are recorded against: as POST /api/transactions
\* stores them, unpaid or already marked paid, read with their dueDate and
\* with their payments included.
PaymentRows ==
    {CreatedRow([type |-> "EXPENSE", amount |-> amount, currency |-> "BDT",
                 amountBDT |-> amount, paymentStatus |-> paid.paymentStatus,
                 paymentDate |-> paid.paymentDate])
        @@ [dueDate |-> dueDate, payments |-> <<>>] :
        amount \in {1004, 3000},
        paid \in {[paymentStatus |-> "UNPAID", paymentDate |-> <<>>],
                  [paymentStatus |-> "PAID", paymentDate |-> <<0>>]},
        dueDate \in {<<>>, <<1>>}}

InitPayments ==
    /\ PdfAtRest
    /\ transactions \in [1..1 -> PaymentRows]
    /\ recurringTemplates = <<>>
    /\ exchangeRates = [c \in {"USD"} |-> <<>>]
    /\ response = [endpoint |-> "none", status |-> 0, ids |-> {}]
    /\ partialKeepsRefinements = FALSE
    /\ cronSecret = ""
    /\ inflight = <<>>

NextPayments == CreatePayment \/ UpdatePaymentStatus \/ Tick

SpecPayments == InitPayments /\ [][NextPayments]_vars

-----------------------------------------------------------------------------
(* Reading a finished document *)

\* The invocation has returned the bytes of a document.
Finished(r) == pc[r] = "done" /\ result[r] = "bytes"

\* The invocation ran generateModernInvoicePDF (only its data carries totals).
RanModern(r) == "totals" \in DOMAIN data[r]

HasTag(page, tag) == \E k \in DOMAIN page.cmds : page.cmds[k].tag = tag

CountTag(page, tag) ==
    Cardinality({k \in DOMAIN page.cmds : page.cmds[k].tag = tag})

\* Number of pages created at the pagination point `by`.
PagesBy(d, by) == Cardinality({p \in DOMAIN d : d[p].by = by})

-----------------------------------------------------------------------------
(* C1: an estimate above the first page's content area gives a second page *)

\* The estimate as the claim words it: 18 + 16 with a description + 14 per
\* bullet + 25, summed over the items.
RECURSIVE CumulativeEstimate(_)
CumulativeEstimate(items) ==
    IF items = <<>> THEN 0
    ELSE 1800 + (IF Head(items).description # <<>> THEN 1600 ELSE 0)
              + 1400 * Len(Head(items).details) + 2500
              + CumulativeEstimate(Tail(items))

\* The first page's content area: from the first line item down to the
\* lowest position content may take.
FirstPageContentArea(r) == Header(loc[r]).y - MIN_CONTENT_Y

\* Every bullet has at least one non-empty word, so it emits a line.
EveryBulletHasText(items) ==
    \A i \in DOMAIN items : \A k \in DOMAIN items[i].details :
        \E w \in DOMAIN Split(items[i].details[k]) :
            Split(items[i].details[k])[w] # <<>>

\* C1 as stated: whenever the cumulative estimated height of the line items
\* exceeds the content area of the first page, the finished document has more
\* than one page.
C1_EstimateOverflowPaginates ==
    \A r \in Inv :
        (Finished(r) /\ RanModern(r)
         /\ CumulativeEstimate(data[r].lineItems) > FirstPageContentArea(r))
        => Len(doc[r]) > 1

\* C1 amended: whenever every detail bullet holds at least one non-empty word
\* and the cumulative estimated height exceeds the content area of the first
\* page, the finished document has more than one page.
C1_EstimateOverflowPaginatesWithText ==
    \A r \in Inv :
        (Finished(r) /\ RanModern(r)
         /\ EveryBulletHasText(data[r].lineItems)
         /\ CumulativeEstimate(data[r].lineItems) > FirstPageContentArea(r))
        => Len(doc[r]) > 1

\* C1 witness: a finished invoice with bullets that all hold text, whose
\* estimate exceeds the first page and which was paginated before an item.
C1_Witness ==
    \E r \in Inv :
        /\ Finished(r) /\ RanModern(r)
        /\ \E i \in DOMAIN data[r].lineItems : data[r].lineItems[i].details # <<>>
        /\ EveryBulletHasText(data[r].lineItems)
        /\ CumulativeEstimate(data[r].lineItems) > FirstPageContentArea(r)
        /\ Len(doc[r]) > 1
        /\ PagesBy(doc[r], "item") > 0

-----------------------------------------------------------------------------
(* C2, C3: footer and column header of every page *)

\* C2 as stated: in a finished document every page carries exactly one
\* footer, whichever pagination point created the page.
C2_ExactlyOneFooterPerPage ==
    \A r \in Inv :
        (Finished(r) /\ RanModern(r))
        => \A p \in DOMAIN doc[r] : CountTag(doc[r][p], "footer.band") = 1

\* C3 as stated: in a finished document every page after the first carries
\* the column header, whichever pagination point created the page.
C3_ColumnHeaderOnEveryLaterPage ==
    \A r \in Inv :
        (Finished(r) /\ RanModern(r))
        => \A p \in DOMAIN doc[r] :
              p > 1 => /\ HasTag(doc[r][p], "colhdr.description")
                       /\ HasTag(doc[r][p], "colhdr.amount")

-----------------------------------------------------------------------------
(* C4, C5: the lines a bullet is wrapped into *)

RECURSIVE ConcatAll(_)
ConcatAll(ss) == IF ss = <<>> THEN <<>> ELSE Head(ss) \o ConcatAll(Tail(ss))

NonEmptyWords(text) == SelectSeq(Split(text), LAMBDA w : w # <<>>)

\* The emitted bullet lines of a document in drawing order, each without the
\* bullet prefix.
BulletLines(d) ==
    LET cmds == SelectSeq(ConcatAll([p \in DOMAIN d |-> d[p].cmds]),
                          LAMBDA c : c.tag = "bullet")
    IN  [k \in DOMAIN cmds |-> SubSeq(cmds[k].text, 3, Len(cmds[k].text))]

\* The wrapping parameters of the generator the invocation ran.
WrapOf(r) == IF RanModern(r) THEN ModernWrap("") ELSE LegacyWrap

TooWide(text, P) == widthOfTextAtSize(text, P.size10) > P.maxWidth * 10000

\* The non-empty words of all bullets of all items, in input order.
InputWords(items) ==
    ConcatAll([i \in DOMAIN items |->
        ConcatAll([k \in DOMAIN items[i].details |->
            NonEmptyWords(items[i].details[k])])])

\* C4: every emitted bullet line, measured without the bullet prefix, is at
\* most maxWidth wide unless it consists of exactly one word that is itself
\* wider than maxWidth; in both generators.
C4_LinesFitOrSingleWideWord ==
    \A r \in Inv : \A p \in DOMAIN doc[r] : \A k \in DOMAIN doc[r][p].cmds :
        doc[r][p].cmds[k].tag = "bullet"
        => LET text == doc[r][p].cmds[k].text
               line == SubSeq(text, 3, Len(text))
           IN  \/ ~TooWide(line, WrapOf(r))
               \/ Len(Split(line)) = 1

\* C4 witness: the legacy generator has wrapped one bullet into a line of
\* several words that fits and a line made of one over-wide word.
C4_Witness ==
    \E r \in Inv :
        /\ Finished(r) /\ ~RanModern(r)
        /\ \E k \in DOMAIN BulletLines(doc[r]) :
              /\ Len(NonEmptyWords(BulletLines(doc[r])[k])) > 1
              /\ ~TooWide(BulletLines(doc[r])[k], LegacyWrap)
        /\ \E k \in DOMAIN BulletLines(doc[r]) :
              TooWide(BulletLines(doc[r])[k], LegacyWrap)

\* C5: a word wider than maxWidth is emitted whole and alone on a line of its
\* own: every line holding such a word is that word and nothing else, the
\* emitted lines hold exactly the input's non-empty words in their order, and
\* a bullet that is one space-free string is emitted as exactly one line.
C5_WideWordWholeAndAlone ==
    \A r \in Inv :
        (Finished(r) /\ RanModern(r))
        => LET lines == BulletLines(doc[r])
               items == data[r].lineItems
               P == ModernWrap("")
           IN  /\ \A k \in DOMAIN lines :
                     (\E w \in DOMAIN Split(lines[k]) : TooWide(Split(lines[k])[w], P))
                     => Len(Split(lines[k])) = 1
               /\ ConcatAll([k \in DOMAIN lines |-> NonEmptyWords(lines[k])])
                     = InputWords(items)
               /\ (/\ Len(items) = 1
                   /\ Len(items[1].details) = 1
                   /\ Len(Split(items[1].details[1])) = 1
                   /\ items[1].details[1] # <<>>)
                  => Len(lines) = 1

\* C5 witness: a bullet with a word before and a word after an over-wide word
\* has been wrapped into three lines, and the over-wide word is the second.
C5_Witness ==
    \E r \in Inv :
        /\ Finished(r) /\ RanModern(r)
        /\ Len(data[r].lineItems) = 1
        /\ data[r].lineItems[1].details = <<Join(<<<<"ab">>, WideWord, <<"cd">>>>)>>
        /\ BulletLines(doc[r]) = << <<"ab">>, WideWord, <<"cd">> >>

-----------------------------------------------------------------------------
(* C6: the rendered total *)

\* The number drawn as the total in the totals box of a finished document.
RenderedTotals(d) ==
    UNION {{d[p].cmds[k].num : k \in {j \in DOMAIN d[p].cmds :
                                          d[p].cmds[j].tag = "totals.total"}} :
           p \in DOMAIN d}

RECURSIVE SumRounded(_)
SumRounded(items) ==
    IF items = <<>> THEN 0 ELSE toFixed2(Head(items).amount) + SumRounded(Tail(items))

\* C6 as stated: whenever the input supplies no subtotal, discount or tax,
\* whether or not it supplies a total, the total rendered in the totals box is
\* the sum of the line-item amounts rounded to two decimals.
C6_TotalIsRoundedSum ==
    \A r \in Inv :
        (Finished(r) /\ RanModern(r)
         /\ (Some(data[r].totals) => ~hasBreakdown(Val(data[r].totals))))
        => RenderedTotals(doc[r]) = {toFixed2(SumAmounts(data[r].lineItems))}

\* C6 amended: whenever the input supplies no totals at all, the total
\* rendered in the totals box is the sum of the line-item amounts rounded to
\* two decimals.
C6_TotalIsRoundedSumWithoutTotals ==
    \A r \in Inv :
        (Finished(r) /\ RanModern(r) /\ ~Some(data[r].totals))
        => RenderedTotals(doc[r]) = {toFixed2(SumAmounts(data[r].lineItems))}

\* C6 witness: an invoice without totals and with several items has been
\* rendered, and its total is the rounded sum, not the sum of the rounded
\* amounts.
C6_Witness ==
    \E r \in Inv :
        /\ Finished(r) /\ RanModern(r) /\ ~Some(data[r].totals)
        /\ Len(data[r].lineItems) > 1
        /\ RenderedTotals(doc[r]) = {toFixed2(SumAmounts(data[r].lineItems))}
        /\ SumRounded(data[r].lineItems) # toFixed2(SumAmounts(data[r].lineItems))

-----------------------------------------------------------------------------
(* C7: the PAID overlay *)

\* C7 as stated: a finished document of a paid invoice carries the PAID
\* overlay on the page of the totals box, wherever the totals box stands; a
\* finished document of an unpaid invoice carries it on no page.
C7_PaidOverlayOnTotalsPage ==
    \A r \in Inv :
        (Finished(r) /\ RanModern(r))
        => \A p \in DOMAIN doc[r] :
              IF data[r].isPaid
              THEN HasTag(doc[r][p], "totals.box") => HasTag(doc[r][p], "paid.text")
              ELSE ~HasTag(doc[r][p], "paid.text")

-----------------------------------------------------------------------------
(* C8: an empty line-item list *)

\* C8 as stated: on every path that reaches the modern generator, an invoice
\* with an empty line-item list gets no page and no draw command, and no
\* document is returned for it.
C8_EmptyInvoiceRejected ==
    \A r \in Inv :
        (RanModern(r) /\ data[r].lineItems = <<>>)
        => doc[r] = <<>> /\ result[r] # "bytes"

-----------------------------------------------------------------------------
(* C9: the logo cannot be loaded *)

\* C9 as stated: when the logo cannot be read or decoded, either generator
\* still returns a document, and its header carries a text placeholder in
\* place of the logo image.
C9_LogoPlaceholder ==
    \A r \in Inv :
        (pc[r] = "done" /\ data[r] # None /\ ~logoReadable)
        => /\ result[r] = "bytes"
           /\ CountTag(doc[r][1], "header.logoText") = 1
           /\ ~HasTag(doc[r][1], "header.logo")

-----------------------------------------------------------------------------
(* C10: two renderings of the same input *)

\* C10 as stated: two finished renderings of the same input are the same
\* document, whatever the clock showed at either rendering.
C10_SameInputSameDocument ==
    (Finished(1) /\ Finished(2) /\ call[1] = call[2]) => doc[1] = doc[2]

-----------------------------------------------------------------------------
(* C11: the lines of the totals box *)

\* The pages of a document that hold the totals box.
TotalsPages(d) == {p \in DOMAIN d : HasTag(d[p], "totals.box")}

\* The heights of the totals boxes drawn in a document.
BoxHeights(d) ==
    UNION {{d[p].cmds[k].num : k \in {j \in DOMAIN d[p].cmds :
                                          d[p].cmds[j].tag = "totals.box"}} :
           p \in DOMAIN d}

\* The value of field f of the input's totals: <<>> when the field or the
\* whole totals object is absent.
TotalsField(r, f) == IF Some(data[r].totals) THEN Val(data[r].totals)[f] ELSE <<>>

LineDrawn(r, tag) == \E p \in DOMAIN doc[r] : HasTag(doc[r][p], tag)

\* C11 as stated: a subtotal, discount or tax line is rendered if and only if
\* the field is present in the totals, also when its value is 0; the compact
\* box is used when none is present and the taller box otherwise.
C11_LineIffFieldPresent ==
    \A r \in Inv :
        (Finished(r) /\ RanModern(r))
        => /\ LineDrawn(r, "totals.subtotal") <=> Some(TotalsField(r, "subtotal"))
           /\ LineDrawn(r, "totals.discount") <=> Some(TotalsField(r, "discount"))
           /\ LineDrawn(r, "totals.tax") <=> Some(TotalsField(r, "tax"))
           /\ BoxHeights(doc[r]) =
                 {IF \E f \in {"subtotal", "discount", "tax"} : Some(TotalsField(r, f))
                  THEN 12000 ELSE 6000}

\* C11 amended: the subtotal line is rendered if and only if the subtotal is
\* present and not 0, the discount and the tax line if and only if the field
\* is present and greater than 0; the total line is always rendered, once, in
\* the box; the compact box is used when none of the three fields is present
\* and the taller box when at least one is present, whatever its value.
C11_LineIffFieldPresentAndCounted ==
    \A r \in Inv :
        (Finished(r) /\ RanModern(r))
        => LET sub == TotalsField(r, "subtotal")
               disc == TotalsField(r, "discount")
               tax == TotalsField(r, "tax")
           IN  /\ LineDrawn(r, "totals.subtotal") <=> (Some(sub) /\ Val(sub) # 0)
               /\ LineDrawn(r, "totals.discount") <=> (Some(disc) /\ Val(disc) > 0)
               /\ LineDrawn(r, "totals.tax") <=> (Some(tax) /\ Val(tax) > 0)
               /\ Cardinality(TotalsPages(doc[r])) = 1
               /\ \A p \in TotalsPages(doc[r]) :
                     /\ CountTag(doc[r][p], "totals.total") = 1
                     /\ \A tag \in {"totals.subtotal", "totals.discount", "totals.tax"} :
                           LineDrawn(r, tag) => CountTag(doc[r][p], tag) = 1
               /\ BoxHeights(doc[r]) =
                     {IF Some(sub) \/ Some(disc) \/ Some(tax) THEN 12000 ELSE 6000}

\* C11 witness: an invoice whose totals carry a subtotal of 0, a discount
\* and no tax has been rendered in the taller box with the discount line and
\* without a subtotal line.
C11_Witness ==
    \E r \in Inv :
        /\ Finished(r) /\ RanModern(r)
        /\ TotalsField(r, "subtotal") = <<0>>
        /\ TotalsField(r, "discount") = <<5000>>
        /\ TotalsField(r, "tax") = <<>>
        /\ LineDrawn(r, "totals.discount")
        /\ ~LineDrawn(r, "totals.subtotal")
        /\ BoxHeights(doc[r]) = {12000}

-----------------------------------------------------------------------------
(* C12: isolation of concurrent invocations *)

\* C12: when the steps of two renderings of distinct invoices interleave in
\* any order, each rendering returns exactly the document it produces when
\* it runs alone.
C12_InterleavedAsAlone ==
    \A r \in Inv :
        Finished(r) => doc[r] = RenderAlone(data[r], logoReadable, clock)

\* C12 witness: the first rendering has returned a paginated document, equal
\* to the one it produces alone, while the second rendering, of another
\* invoice, is in the middle of its bullet loop.
C12_Witness ==
    /\ Finished(1)
    /\ call[1] # call[2]
    /\ Len(doc[1]) > 1
    /\ doc[1] = RenderAlone(data[1], logoReadable, clock)
    /\ pc[2] = "m.details" /\ det[2] > 0


-----------------------------------------------------------------------------
(* Claims about the transaction endpoints *)

\* The financial fields of a row.
Financial(row) == <<row.amount, row.currency, row.exchangeRate, row.amountBDT>>

\* C13: a PATCH on a transaction stored as PAID, whatever its answer, leaves
\* the stored amount, currency, exchangeRate and amountBDT as they were.
C13_PaidFinancialFieldsFrozen ==
    [][response'.endpoint = "PATCH /api/transactions/[id]" =>
          \A id \in DOMAIN transactions :
              transactions[id].paymentStatus = "PAID" =>
                  Financial(transactions'[id]) = Financial(transactions[id])]_vars

\* The soft-deleted rows.
Deleted == {id \in DOMAIN transactions : Some(transactions[id].deletedAt)}

\* What GET, PATCH and DELETE on a row answer and leave behind.
Unchanged(o) == o.transactions = transactions

DeletedAnswers ==
    \A id \in Deleted : \A session \in Sessions :
        LET role == IF Some(session) THEN getUserRole(session) ELSE ""
            get == GetStatus(session, id)
            del == DeleteOutcome(session, id, clock)
        IN  /\ get \in {401, 403, 410}
            /\ (Some(session) /\ authorize(role, "TRANSACTION_READ")) => get = 410
            /\ del.status \in {401, 403, 410}
            /\ (Some(session) /\ authorize(role, "TRANSACTION_DELETE")) => del.status = 410
            /\ Unchanged(del)
            /\ \A body \in UpdateBodies :
                  LET patch == PatchOutcome(session, id, body)
                  IN  /\ patch.status \in {401, 403, 400, 410}
                      /\ (/\ Some(session) /\ authorize(role, "TRANSACTION_UPDATE")
                          /\ updateTransactionSchema(body, partialKeepsRefinements))
                            => patch.status = 410
                      /\ Unchanged(patch)

ReadEndpoints ==
    {"GET /api/transactions", "GET /api/transactions/[id]", "GET /api/reports",
     "GET /api/dashboard/stats", "GET /api/invoices", "GET /api/invoices/[id]"}

\* C15: no read endpoint returns a soft-deleted transaction or counts it in
\* an aggregate.
C15_ReadsSkipDeleted ==
    response.endpoint \in ReadEndpoints => response.ids \cap Deleted = {}

\* C16: every stored transaction whose paymentStatus is PAID has a payment
\* date.
C16_PaidHasPaymentDate ==
    \A id \in DOMAIN transactions :
        transactions[id].paymentStatus = "PAID" => Some(transactions[id].paymentDate)

\* What each role may do to transactions according to the access rules:
\* VIEWER nothing, ACCOUNTANT create and update, ADMIN and MANAGER all three.
MayChange(role) ==
    CASE role \in {"ADMIN", "MANAGER"} -> {"POST", "PATCH", "DELETE"}
      [] role = "ACCOUNTANT" -> {"POST", "PATCH"}
      [] OTHER -> {}

\* The answer is 403 with the table untouched when the method is not among
\* allowed, and is not 403 when it is.
Gated(method, allowed, o) ==
    IF method \in allowed THEN o.status # 403
    ELSE o.status = 403 /\ Unchanged(o)

\* C18: a signed-in caller whose role lacks the permission of the method, or
\* who has no role, is answered 403 by POST, PATCH and DELETE and changes
\* nothing; VIEWER can change nothing, ACCOUNTANT can create and update but not
\* delete, ADMIN and MANAGER can do all three.
C18_RoleGatesWrites ==
    \A session \in Sessions \ {<<>>} :
        LET allowed == MayChange(getUserRole(session))
        IN  /\ \A body \in CreateBodies :
                  Gated("POST", allowed, PostOutcome(session, body))
            /\ \A id \in TxIds, body \in UpdateBodies :
                  Gated("PATCH", allowed, PatchOutcome(session, id, body))
            /\ \A id \in TxIds :
                  Gated("DELETE", allowed, DeleteOutcome(session, id, clock))

\* A DELETE on a stored, live row was answered 403, and an ACCOUNTANT asking
\* the same would be.
C18_Witness ==
    /\ response.endpoint = "DELETE /api/transactions/[id]"
    /\ response.status = 403
    /\ \E id \in DOMAIN transactions :
          /\ id \notin Deleted
          /\ DeleteOutcome(<<[email |-> "user@e2w", role |-> "ACCOUNTANT"]>>, id, clock).status
                = 403
          /\ PatchOutcome(<<[email |-> "user@e2w", role |-> "ACCOUNTANT"]>>, id,
                          [paymentDate |-> <<>>]).status = 200


-----------------------------------------------------------------------------
(* Claims about invoice generation and recurring generation *)

\* An outcome that rejects the request with the given status and writes
\* nothing.
Rejects(o, status) == o.status = status /\ Unchanged(o)

C19_StoredRateIsFromTable ==
    \A id \in DOMAIN transactions :
        Some(transactions[id].exchangeRate) =>
            transactions[id].exchangeRate = FindRate(transactions[id].currency)

\* The condition under which a run may generate from a template: it is
\* active, its nextScheduled is null or not after the run time, its endDate is
\* null or not before the run time.
DueAt(template, now) ==
    /\ template.active = TRUE
    /\ template.nextScheduled = <<>> \/ Val(template.nextScheduled) <= now
    /\ template.endDate = <<>> \/ Val(template.endDate) >= now

\* The endpoints that run the recurring generation.
RecurringEndpoints ==
    {"POST /api/recurring/generate", "GET /api/cron/generate-recurring-invoices"}

\* C20: a run of the recurring generation, by cron or by hand, creates a
\* transaction for a template only if the template is due at the run time, and
\* leaves a template that is not due as it was.
C20_OnlyDueTemplatesGenerate ==
    [][response'.endpoint \in RecurringEndpoints =>
          \A k \in DOMAIN recurringTemplates :
              /\ (\E id \in (Len(transactions) + 1)..Len(transactions') :
                      transactions'[id].recurringTemplateId = <<k>>)
                    => DueAt(recurringTemplates[k], clock)
              /\ ~DueAt(recurringTemplates[k], clock)
                    => recurringTemplates'[k] = recurringTemplates[k]]_vars

\* A template generated its transaction, and a later run, for which it is
\* no longer due, created nothing and left it alone.
C20_Witness ==
    /\ response.endpoint \in RecurringEndpoints
    /\ response.status = 200
    /\ response.ids = {}
    /\ \E k \in DOMAIN recurringTemplates :
          /\ Some(recurringTemplates[k].lastGenerated)
          /\ ~DueAt(recurringTemplates[k], clock)
          /\ \E id \in DOMAIN transactions : transactions[id].recurringTemplateId = <<k>>

\* The templates due at the present time.
DueNow == {k \in DOMAIN recurringTemplates : DueAt(recurringTemplates[k], clock)}

\* C21: the cron endpoint answers 500 when no secret is configured and 401
\* when the Authorization header is not "Bearer " followed by the secret; in
\* both cases it creates no transaction and updates no template.
C21_CronRequiresSecret ==
    \A authHeader \in AuthHeaders : \A created \in SUBSET DueNow :
        LET o == CronOutcome(authHeader, created, clock)
            untouched == /\ o.transactions = transactions
                         /\ o.recurringTemplates = recurringTemplates
        IN  /\ cronSecret = "" => o.status = 500 /\ untouched
            /\ (cronSecret = "s3cret" /\ authHeader # "Bearer s3cret")
                  => o.status = 401 /\ untouched

\* With a template due, the cron endpoint has turned a caller away with 401
\* and the ledger is still empty.
C21_Witness ==
    /\ response.endpoint = "GET /api/cron/generate-recurring-invoices"
    /\ response.status = 401
    /\ DueNow # {}
    /\ transactions = <<>>

-----------------------------------------------------------------------------
(* Claims about partial payments *)

\* The status the payments of a row call for at a time: PAID when the
\* rounded sum reaches the rounded amountBDT, PARTIALLY_PAID when it is
\* positive but smaller, else OVERDUE past the due date, else UNPAID.
StatusCalledFor(row, payments, now) ==
    LET paid == roundCurrency(SumPayments(payments))
        total == roundCurrency(row.amountBDT)
    IN  CASE paid >= total -> "PAID"
          [] paid > 0 /\ paid < total -> "PARTIALLY_PAID"
          [] OTHER -> IF row.dueDate # <<>> /\ now > row.dueDate[1]
                      THEN "OVERDUE" ELSE "UNPAID"

\* UNPAID and OVERDUE first, then PARTIALLY_PAID, then PAID.
StatusRank(status) ==
    CASE status = "PAID" -> 2
      [] status = "PARTIALLY_PAID" -> 1
      [] OTHER -> 0

\* The step is a call of updateTransactionPaymentStatus that follows the
\* recording of a payment.
UpdateStep ==
    /\ response.endpoint = "prisma.payment.create"
    /\ response'.endpoint = "updateTransactionPaymentStatus"
    /\ clock' = clock
    /\ transactions'[1].payments = transactions[1].payments

StatusFromPayments(row, now) ==
    \E n \in 0..Len(row.payments) : \E t \in 0..now :
        row.paymentStatus = StatusCalledFor(row, SubSeq(row.payments, 1, n), t)

\* No payment of the row has a negative amount.
NoRefund(row) == \A i \in DOMAIN row.payments : row.payments[i].amountBDT >= 0

-----------------------------------------------------------------------------
(* Claims about the space checks of the line-item loop *)

\* The draw calls of the sub-elements of a line item.
SubElementTags == {"item.title", "item.amount", "item.description", "bullet"}

\* The height of a sub-element: 18 for the title line, 16 for a description,
\* 13 for one line of a bullet.
ElementHeight(tag) ==
    CASE tag \in {"item.title", "item.amount"} -> 1800
      [] tag = "item.description" -> 1600
      [] OTHER -> 1300

\* C23 as stated: no title, amount, description or bullet line of a modern
\* invoice is placed at a position y with y - elementHeight < MIN_CONTENT_Y.
C23_RoomBelowEverySubElement ==
    \A r \in Inv :
        RanModern(r) =>
            \A p \in DOMAIN doc[r] : \A k \in DOMAIN doc[r][p].cmds :
                LET cmd == doc[r][p].cmds[k]
                IN  cmd.tag \in SubElementTags
                        => cmd.y - ElementHeight(cmd.tag) >= MIN_CONTENT_Y

-----------------------------------------------------------------------------
(* Claims about the footer that closes a page *)

\* The invoice number the invocation prints: metadata, else the transaction,
\* else INV-001.
PrintedInvoiceNumber(r) ==
    LET d == data[r]
    IN  IF d.metadata.invoiceNumber # "" THEN d.metadata.invoiceNumber
        ELSE IF d.transaction # <<>> /\ d.transaction[1].invoiceNumber # ""
        THEN d.transaction[1].invoiceNumber
        ELSE "INV-001"

\* The last draw calls of the page are those of a footer: the band, the two
\* brand lines and the line with the invoice number.
EndsWithFooter(page, invoiceNumber) ==
    LET n == Len(page.cmds)
    IN  /\ n >= 4
        /\ page.cmds[n - 3].tag = "footer.band"
        /\ page.cmds[n - 2].tag = "footer.brand"
        /\ page.cmds[n - 1].tag = "footer.site"
        /\ page.cmds[n].tag = "footer.invoice"
        /\ page.cmds[n].text = <<"Invoice", " ", invoiceNumber>>

\* C24: in a finished modern document the last draw calls on every page are
\* its footer with the invoice number, and no step draws on a page that is
\* not the last page of its document.
C24_FooterClosesEveryPage ==
    /\ [](\A r \in Inv :
            (Finished(r) /\ RanModern(r))
            => \A p \in DOMAIN doc[r] :
                  EndsWithFooter(doc[r][p], PrintedInvoiceNumber(r)))
    /\ [][\A r \in Inv : \A p \in DOMAIN doc[r] :
            p < Len(doc[r]) => (p \in DOMAIN doc'[r] /\ doc'[r][p] = doc[r][p])]_vars

\* A finished modern document of three pages or more, one of them opened in
\* the middle of a bullet list.
C24_Witness ==
    \E r \in Inv :
        /\ Finished(r) /\ RanModern(r)
        /\ Len(doc[r]) >= 3
        /\ PagesBy(doc[r], "wrap") + PagesBy(doc[r], "detail") > 0

-----------------------------------------------------------------------------
(* Claims about the schedule of a recurring template *)

\* The run created a transaction for template k.
Generated(k) ==
    \E id \in (Len(transactions) + 1)..Len(transactions') :
        transactions'[id].recurringTemplateId = <<k>>

\* The date the transaction generated from a template is scheduled for: the
\* template's nextScheduled, or the run time when it has none.
ScheduledFor(template, now) ==
    IF template.nextScheduled # <<>> THEN template.nextScheduled[1] ELSE now

\* C25 as stated: after a run generated from a template, the template's
\* lastGenerated is the run time and its nextScheduled is later than the date
\* the transaction was scheduled for.
C25_ScheduleAdvances ==
    [][response'.endpoint \in RecurringEndpoints =>
          \A k \in DOMAIN recurringTemplates :
              Generated(k) =>
                  /\ recurringTemplates'[k].lastGenerated = <<clock>>
                  /\ recurringTemplates'[k].nextScheduled # <<>>
                  /\ recurringTemplates'[k].nextScheduled[1]
                        > ScheduledFor(recurringTemplates[k], clock)]_vars

-----------------------------------------------------------------------------
(* Claims about the content of a paginated document *)

\* One piece of content: a numbered title, an amount, a description or one
\* word of a bullet.
Piece(kind, num, text) == [kind |-> kind, num |-> num, text |-> text]

\* The tokens of a text that are not spaces, one piece each.
WordPieces(text) ==
    LET words == SelectSeq(text, LAMBDA tok : tok # " ")
    IN  [w \in DOMAIN words |-> Piece("word", 0, <<words[w]>>)]

\* The pieces a draw call shows; none for a call that draws no line-item
\* content.
PiecesOfCmd(cmd) ==
    CASE cmd.tag = "item.title" -> <<Piece("title", cmd.num, cmd.text)>>
      [] cmd.tag = "item.amount" -> <<Piece("amount", cmd.num, <<>>)>>
      [] cmd.tag = "item.description" -> <<Piece("description", 0, cmd.text)>>
      [] cmd.tag = "bullet" -> WordPieces(SubSeq(cmd.text, 3, Len(cmd.text)))
      [] OTHER -> <<>>

RECURSIVE PiecesOfCmds(_)
PiecesOfCmds(cmds) ==
    IF cmds = <<>> THEN <<>>
    ELSE PiecesOfCmd(Head(cmds)) \o PiecesOfCmds(Tail(cmds))

\* The document read page by page, each page in draw order.
RECURSIVE ReadPages(_)
ReadPages(d) ==
    IF d = <<>> THEN <<>>
    ELSE PiecesOfCmds(Head(d).cmds) \o ReadPages(Tail(d))

RECURSIVE WordsOfDetails(_)
WordsOfDetails(details) ==
    IF details = <<>> THEN <<>>
    ELSE WordPieces(Head(details)) \o WordsOfDetails(Tail(details))

\* The content of the line items from number i on, in input order.
RECURSIVE ContentFrom(_, _)
ContentFrom(items, i) ==
    IF i > Len(items) THEN <<>>
    ELSE <<Piece("title", i, items[i].title),
           Piece("amount", toFixed2(items[i].amount), <<>>)>>
         \o (IF items[i].description # <<>>
             THEN <<Piece("description", 0, items[i].description)>> ELSE <<>>)
         \o WordsOfDetails(items[i].details)
         \o ContentFrom(items, i + 1)

\* C26: a finished modern document, read page by page in draw order, shows
\* the line items in input order, each as its numbered title, its amount, its
\* description and the words of its bullets in their order, nothing dropped,
\* repeated or moved.
C26_PaginationKeepsContent ==
    \A r \in Inv :
        (Finished(r) /\ RanModern(r))
        => ReadPages(doc[r]) = ContentFrom(data[r].lineItems, 1)

\* A finished modern document whose bullets hold different words and in which
\* a page was opened in the middle of a bullet list.
C26_Witness ==
    \E r \in Inv :
        /\ Finished(r) /\ RanModern(r)
        /\ PagesBy(doc[r], "wrap") + PagesBy(doc[r], "detail") > 0
        /\ \E i \in DOMAIN data[r].lineItems :
              /\ data[r].lineItems[i].details # <<>>
              /\ \E w \in DOMAIN data[r].lineItems[i].details[1] :
                    data[r].lineItems[i].details[1][w] = "cd"
        /\ ReadPages(doc[r]) = ContentFrom(data[r].lineItems, 1)

-----------------------------------------------------------------------------
(* Claims about the footer band *)

\* C27: on every page of a modern invoice each title, amount, description and
\* bullet line and the totals box are drawn at a vertical position of at
\* least MIN_CONTENT_Y, which is above the footer band of 60 points.
C27_ContentAboveFooterBand ==
    \A r \in Inv :
        RanModern(r) =>
            \A p \in DOMAIN doc[r] : \A k \in DOMAIN doc[r][p].cmds :
                LET cmd == doc[r][p].cmds[k]
                IN  cmd.tag \in SubElementTags \cup {"totals.box"}
                        => /\ cmd.y >= MIN_CONTENT_Y
                           /\ cmd.y > 6000

\* A finished modern document with a bullet line less than a line height
\* above MIN_CONTENT_Y and with its totals box on a page opened for it.
C27_Witness ==
    \E r \in Inv :
        /\ Finished(r) /\ RanModern(r)
        /\ PagesBy(doc[r], "totals") > 0
        /\ \E p \in DOMAIN doc[r] : \E k \in DOMAIN doc[r][p].cmds :
              /\ doc[r][p].cmds[k].tag = "bullet"
              /\ doc[r][p].cmds[k].y < MIN_CONTENT_Y + 1300

-----------------------------------------------------------------------------
(* Claims about overlapping and repeated generation runs *)

\* The transactions created for template k and the occurrence scheduled, by
\* either run.
CreatedFor(k, scheduled) ==
    {<<run, i>> \in Runs \X (1..MaxRunTemplates) :
        /\ i \in DOMAIN inflight[run].generated
        /\ inflight[run].generated[i] = <<k, scheduled>>}

\* C28 as stated: for each template and each scheduled occurrence at most one
\* transaction is ever created, however a cron run and a manual request
\* interleave and also when a template update fails.
C28_OneTransactionPerOccurrence ==
    \A k \in DOMAIN recurringTemplates : \A scheduled \in 0..MaxClock :
        Cardinality(CreatedFor(k, scheduled)) <= 1

\* The cron run has answered and its answer is the last one given.
CronAnswered ==
    /\ inflight # <<>>
    /\ inflight["cron"].pc = "done"
    /\ response.endpoint = "GET /api/cron/generate-recurring-invoices"

\* The templates a run has finished with: updated, or caught with an error.
Processed(run) ==
    {i \in DOMAIN inflight[run].found : i < inflight[run].at}

\* C30: in the answer of an authorized cron run success + failed is
\* templatesProcessed and errors has failed entries; the status is 200; a
\* template that throws is counted as failed, its error is recorded, and the
\* loop goes on to the next template, so the answer is given only after every
\* template found was processed.
C30_CronRunAccounting ==
    /\ [](CronAnswered =>
            /\ response.status = 200
            /\ response.templatesProcessed = Len(inflight["cron"].found)
            /\ response.results.success + response.results.failed
                  = response.templatesProcessed
            /\ Len(response.results.errors) = response.results.failed
            /\ Processed("cron") = DOMAIN inflight["cron"].found)
    /\ [][(/\ inflight # <<>>
           /\ inflight["cron"].pc \in {"loop", "created"}
           /\ inflight'["cron"].failed # inflight["cron"].failed)
          => /\ inflight'["cron"].failed = inflight["cron"].failed + 1
             /\ Len(inflight'["cron"].errors) = Len(inflight["cron"].errors) + 1
             /\ inflight'["cron"].success = inflight["cron"].success
             /\ inflight'["cron"].at = inflight["cron"].at + 1
             /\ inflight'["cron"].pc = "loop"]_vars

\* A cron run answered after one template failed and another succeeded.
C30_Witness ==
    /\ CronAnswered
    /\ response.results.failed = 1
    /\ response.results.success = 1
    /\ inflight["cron"].errors = <<1>>

-----------------------------------------------------------------------------
(* Claims about invoice numbers *)

\* The requests that have computed their invoice number.
Numbered == {r \in DOMAIN inflight : inflight[r].pc # "idle"}

\* C29 as stated: under any interleaving of concurrent invoice requests no two
\* requests obtain the same invoice number, and no request fails on the unique
\* index of Transaction.invoiceNumber.
C29_UniqueInvoiceNumbers ==
    /\ \A r1 \in Numbered : \A r2 \in Numbered :
          r1 # r2 => inflight[r1].invoiceNumber # inflight[r2].invoiceNumber
    /\ \A r \in Numbered : inflight[r].pc # "failed"

=============================================================================
